---------------------------- MODULE Spec2Model ----------------------------
(***************************************************************************)
(* Circuit analysis engine of FisicaExperimentos: the coordinator          *)
(* CircuitAnalyzer (src/utils/solver.js), the topology extractor           *)
(* NodeAnalyzer (src/utils/node_analyzer.js), the matrix builder           *)
(* CircuitMatrixBuilder (src/utils/circuit_matrix.js), the linear solver   *)
(* EquationSolver (src/utils/equation_solver.js) and the electrical model  *)
(* OhmLawHelper (src/utils/ohm_law_helper.js).                             *)
(*                                                                         *)
(* Numbers.  A JavaScript number is modelled as an exact fraction <<n, d>> *)
(* in lowest terms with d >= 0; d = 0 encodes the non-finite values        *)
(* (<<1,0>> = Infinity, <<-1,0>> = -Infinity, <<0,0>> = NaN).  Positions   *)
(* are integer pixels.  Wire resistance is an integer count of micro-ohms  *)
(* so that the ideal-wire threshold 1e-6 is the integer 1.                 *)
(***************************************************************************)
EXTENDS Integers, Sequences, FiniteSets, TLC

VARIABLES
    circuit,        \* the caller's Circuit object: [components, wires]
    disposed,       \* CircuitAnalyzer.dispose() has nulled the sub-modules
    analysisCache,  \* CircuitAnalyzer.analysisCache : fingerprint -> result
    lastCircuitHash,\* CircuitAnalyzer.lastCircuitHash
    calls,          \* per caller: the analyzeCircuit invocation in progress
    microtasks,     \* FIFO of callers whose `await` continuation is queued
    clock,          \* value the next `new Date()` returns
    cacheOrigin,    \* history: fingerprint of the circuit each cache entry was computed from
    nEdits,         \* number of circuit edits performed so far
    nCalls,         \* number of analyzeCircuit invocations so far
    lastDone,       \* history: the most recent completed invocation, while nothing changed since
    sys,            \* linear system handed to EquationSolver.solve
    sol,            \* what EquationSolver.solve returned for sys
    topo,           \* what NodeAnalyzer.analyzeNodes returned for circuit (nodeAnalysis)
    selectedMethod, \* what CircuitAnalyzer.selectOptimalMethod returned for topo
    voltageSource,  \* a VoltageSource object
    app             \* a CircuitSimulatorApp: its undo history and its document

vars == <<circuit, disposed, analysisCache, lastCircuitHash, calls, microtasks,
          clock, cacheOrigin, nEdits, nCalls, lastDone, sys, sol, topo, selectedMethod,
          voltageSource, app>>

-----------------------------------------------------------------------------
(* Bounds of the model *)

MaxEdits == 1       \* circuit edits per behaviour
MaxCalls == 2       \* analyzeCircuit invocations per behaviour
NumCallers == 2     \* callers that may have an invocation in flight
MaxEntry == 1       \* matrix and right-hand-side entries range over -MaxEntry..MaxEntry

Callers == 1..NumCallers

-----------------------------------------------------------------------------
(* JavaScript numbers as exact fractions *)

Abs(x) == IF x < 0 THEN -x ELSE x

Sign(x) == IF x < 0 THEN -1 ELSE IF x > 0 THEN 1 ELSE 0

RECURSIVE GCD(_, _)
GCD(a, b) == IF b = 0 THEN a ELSE GCD(b, a % b)

Rat(n, d) ==
    IF d = 0 THEN <<Sign(n), 0>>
    ELSE LET g == GCD(Abs(n), Abs(d))
             s == IF d < 0 THEN -1 ELSE 1
         IN  <<(s * n) \div g, (s * d) \div g>>

Num(k) == <<k, 1>>
Zero == <<0, 1>>
NaN == <<0, 0>>
Infinity == <<1, 0>>

IsNaN(a) == a = NaN
IsFinite(a) == a[2] # 0

RAdd(a, b) ==
    IF a[2] = 0 /\ b[2] = 0
    THEN (IF a = b THEN a ELSE NaN)
    ELSE Rat(a[1] * b[2] + b[1] * a[2], a[2] * b[2])

RNeg(a) == <<-a[1], a[2]>>
RSub(a, b) == RAdd(a, RNeg(b))
RMul(a, b) == Rat(a[1] * b[1], a[2] * b[2])
RInv(a) == Rat(a[2], a[1])
RDiv(a, b) == RMul(a, RInv(b))
RAbs(a) == <<Abs(a[1]), a[2]>>

\* a < b in IEEE arithmetic: every comparison with NaN is false
RLt(a, b) ==
    /\ ~IsNaN(a) /\ ~IsNaN(b)
    /\ a # b
    /\ IF a[2] = 0 THEN a[1] < 0
       ELSE IF b[2] = 0 THEN b[1] > 0
       ELSE a[1] * b[2] < b[1] * a[2]

RGt(a, b) == RLt(b, a)
RLe(a, b) == ~IsNaN(a) /\ ~IsNaN(b) /\ (a = b \/ RLt(a, b))

\* `x || 0` : 0 and NaN are falsy
OrZero(a) == IF IsNaN(a) \/ a = Zero THEN Zero ELSE a

\* n / d < 10^(-e) for n >= 0, d > 0, without leaving 32-bit integers
RECURSIVE LtPow10(_, _, _)
LtPow10(n, d, e) == IF e = 0 THEN n < d ELSE LtPow10(n, (d + 9) \div 10, e - 1)

\* a < 10^(-e) for a non-negative number a
BelowPow10(a, e) ==
    /\ ~IsNaN(a)
    /\ a[2] # 0
    /\ (a[1] = 0 \/ LtPow10(a[1], a[2], e))

RECURSIVE SumSeq(_)
SumSeq(s) == IF s = <<>> THEN Zero ELSE RAdd(s[1], SumSeq(Tail(s)))

\* Array.prototype.reduce((sum, x) => sum + x, 0)
RECURSIVE ReduceAdd(_, _)
ReduceAdd(s, acc) == IF s = <<>> THEN acc ELSE ReduceAdd(Tail(s), RAdd(acc, s[1]))

\* Array.prototype.filter
RECURSIVE SelectSeqIdx(_, _, _)
SelectSeqIdx(s, Test(_), i) ==
    IF i > Len(s) THEN <<>>
    ELSE IF Test(s[i]) THEN <<s[i]>> \o SelectSeqIdx(s, Test, i + 1)
    ELSE SelectSeqIdx(s, Test, i + 1)

Filter(s, Test(_)) == SelectSeqIdx(s, Test, 1)

\* Array.prototype.find as an index into s, 0 when nothing matches
RECURSIVE FindFrom(_, _, _)
FindFrom(s, Test(_), i) ==
    IF i > Len(s) THEN 0
    ELSE IF Test(s[i]) THEN i ELSE FindFrom(s, Test, i + 1)

FindIndex(s, Test(_)) == FindFrom(s, Test, 1)

Range(s) == {s[i] : i \in DOMAIN s}

-----------------------------------------------------------------------------
(* Text: a string is its sequence of UTF-16 code units (String.charCodeAt) *)

Chars(s) ==
    CASE s = "resistor" -> <<114, 101, 115, 105, 115, 116, 111, 114>>
      [] s = "voltage"  -> <<118, 111, 108, 116, 97, 103, 101>>
      [] s = "current"  -> <<99, 117, 114, 114, 101, 110, 116>>
      [] s = "ground"   -> <<103, 114, 111, 117, 110, 100>>
      [] s = "abc"      -> <<97, 98, 99>>
      [] s = "V1"       -> <<86, 49>>
      [] s = "V2"       -> <<86, 50>>
      [] s = "V3"       -> <<86, 51>>
      [] s = "R1"       -> <<82, 49>>
      [] s = "R2"       -> <<82, 50>>
      [] s = "I1"       -> <<73, 49>>
      [] s = "G1"       -> <<71, 49>>
      [] s = "X9"       -> <<88, 57>>

RECURSIVE Digits(_)
Digits(n) == IF n < 10 THEN <<48 + n>> ELSE Digits(n \div 10) \o <<48 + (n % 10)>>

\* JSON text of an integer number
JsonNumber(n) == IF n < 0 THEN <<45>> \o Digits(-n) ELSE Digits(n)

\* JSON text of a string
JsonString(s) == <<34>> \o Chars(s) \o <<34>>

\* JSON text of a component id held by a wire end, null when unattached
JsonRef(id) == IF id = "null" THEN <<110, 117, 108, 108>> ELSE JsonString(id)

RECURSIVE JoinComma(_)
JoinComma(items) ==
    IF items = <<>> THEN <<>>
    ELSE IF Len(items) = 1 THEN items[1]
    ELSE items[1] \o <<44>> \o JoinComma(Tail(items))

\* {"type":"..","value":..,"id":".."}
JsonComponent(c) ==
    <<123, 34, 116, 121, 112, 101, 34, 58>> \o JsonString(c.type)
    \o <<44, 34, 118, 97, 108, 117, 101, 34, 58>>
    \o (IF c.valueIsText THEN JsonString("abc") ELSE JsonNumber(c.value))
    \o <<44, 34, 105, 100, 34, 58>> \o JsonString(c.id) \o <<125>>

\* {"start":..,"end":..,"resistance":..}
JsonWire(w) ==
    <<123, 34, 115, 116, 97, 114, 116, 34, 58>> \o JsonRef(w.startComponent)
    \o <<44, 34, 101, 110, 100, 34, 58>> \o JsonRef(w.endComponent)
    \o <<44, 34, 114, 101, 115, 105, 115, 116, 97, 110, 99, 101, 34, 58>>
    \o JsonNumber(w.resistance) \o <<125>>

\* JSON.stringify({components: [...], wires: [...]})
JSONstringify(c) ==
    <<123, 34, 99, 111, 109, 112, 111, 110, 101, 110, 116, 115, 34, 58, 91>>
    \o JoinComma([i \in 1..Len(c.components) |-> JsonComponent(c.components[i])])
    \o <<93, 44, 34, 119, 105, 114, 101, 115, 34, 58, 91>>
    \o JoinComma([i \in 1..Len(c.wires) |-> JsonWire(c.wires[i])])
    \o <<93, 125>>

\* One round of hash = ((hash << 5) - hash) + char; hash = hash & hash.
\* The 32-bit value is kept as two 16-bit halves <<hi, lo>>.
HashStep(h, ch) ==
    LET lo == h[2] * 31 + ch
        hi == h[1] * 31 + (lo \div 65536)
    IN  <<hi % 65536, lo % 65536>>

\* the rounds for str[lo..hi] applied to h in order, the range split in halves
RECURSIVE HashFrom(_, _, _, _)
HashFrom(str, lo, hi, h) ==
    IF lo > hi THEN h
    ELSE IF lo = hi THEN HashStep(h, str[lo])
    ELSE LET mid == (lo + hi) \div 2
             left == HashFrom(str, lo, mid, h)
         IN  IF left[1] >= 0 THEN HashFrom(str, mid + 1, hi, left) ELSE left

simpleHash(str) == HashFrom(str, 1, Len(str), <<0, 0>>)

generateCircuitHash(c) == simpleHash(JSONstringify(c))

-----------------------------------------------------------------------------
(* Circuits *)

Pt(x, y) == [x |-> x, y |-> y]

PA == Pt(0, 0)
PB == Pt(60, 0)
PC == Pt(60, 60)

Shift(p, dx) == Pt(p.x + dx, p.y)

\* A Component as the engine sees it: getConnectionPoints() is pts
Comp(id, type, value, pts) ==
    [id |-> id, type |-> type, value |-> value, valueIsText |-> FALSE,
     pts |-> pts, internalResistance |-> 0,
     voltage |-> Zero, current |-> Zero, power |-> Zero]

\* A Wire: new Wire(startPoint, endPoint) with resistance 0
WireAt(id, p, fromId, toId) ==
    [id |-> id, start |-> p, end |-> p,
     startComponent |-> fromId, endComponent |-> toId, resistance |-> 0]

\* three two-terminal parts around the triangle PA-PB-PC, grounded at PA
Loop(c1, c2, c3) ==
    [components |-> <<[c1 EXCEPT !.pts = <<PA, PB>>],
                      [c2 EXCEPT !.pts = <<PB, PC>>],
                      [c3 EXCEPT !.pts = <<PC, PA>>],
                      Comp("G1", "ground", 0, <<PA>>)>>,
     wires |-> <<WireAt("w1", PB, c1.id, c2.id),
                 WireAt("w2", PC, c2.id, c3.id),
                 WireAt("w3", PA, "G1", c1.id)>>]

\* three two-terminal parts across the node pair PA-PB, grounded at PA
Across(c1, c2, c3) ==
    [components |-> <<[c1 EXCEPT !.pts = <<PA, PB>>],
                      [c2 EXCEPT !.pts = <<PA, PB>>],
                      [c3 EXCEPT !.pts = <<PB, PA>>],
                      Comp("G1", "ground", 0, <<PA>>)>>,
     wires |-> <<WireAt("w1", PB, c1.id, c2.id),
                 WireAt("w2", PB, c2.id, c3.id),
                 WireAt("w3", PA, "G1", c1.id)>>]

V(id, v) == Comp(id, "voltage", v, <<>>)
R(id, r) == Comp(id, "resistor", r, <<>>)
I(id, a) == Comp(id, "current", a, <<>>)
Capacitor(id, f) == Comp(id, "capacitor", f, <<>>)

InitialCircuits ==
    { Loop(V("V1", 12), R("R1", 1000), R("R2", 500)),
      Loop(V("V1", 12), V("V2", 5), R("R1", 1000)),
      Loop(I("I1", 1), R("R1", 1000), R("R2", 500)),
      Loop(V("V1", 12), V("V2", 5), V("V3", 7)),
      Across(V("V1", 10), R("R1", 100), R("R2", 100)),
      Across(V("V1", 10), R("R1", 100), R("R2", 400)) }

-----------------------------------------------------------------------------
(* NodeAnalyzer: physical nodes *)

NodeTolerance == 10      \* NodeAnalyzer.tolerance, pixels
IdealEpsilon == 1        \* 1e-6 ohm, in micro-ohms

\* Math.round(v / tolerance) * tolerance for an integer coordinate v
RoundToTolerance(v) ==
    (((2 * v + NodeTolerance) \div (2 * NodeTolerance))) * NodeTolerance

generateNodeKey(x, y) == <<RoundToTolerance(x), RoundToTolerance(y)>>

\* the points visited by identifyPhysicalNodes, in visiting order
ComponentPlacements(c) ==
    LET OfComp(i) ==
            [t \in 1..Len(c.components[i].pts) |->
                [p |-> c.components[i].pts[t], wire |-> "", comp |-> i, terminal |-> t]]
        RECURSIVE From(_)
        From(i) == IF i > Len(c.components) THEN <<>> ELSE OfComp(i) \o From(i + 1)
    IN  From(1)

WirePlacements(c) ==
    LET OfWire(i) ==
            <<[p |-> c.wires[i].start, wire |-> c.wires[i].id, comp |-> 0, terminal |-> 0],
              [p |-> c.wires[i].end, wire |-> c.wires[i].id, comp |-> 0, terminal |-> 0]>>
        RECURSIVE From(_)
        From(i) == IF i > Len(c.wires) THEN <<>> ELSE OfWire(i) \o From(i + 1)
    IN  From(1)

\* physicalNodes.get(nodeKey) after the has/set of one placement
PlaceOne(c, nodes, pl) ==
    LET key == generateNodeKey(pl.p.x, pl.p.y)
        at == FindIndex(nodes, LAMBDA n : n.key = key)
        fresh == [key |-> key, x |-> pl.p.x, y |-> pl.p.y, components |-> <<>>,
                  wires |-> <<>>, isGround |-> FALSE]
        all == IF at = 0 THEN Append(nodes, fresh) ELSE nodes
        k == IF at = 0 THEN Len(all) ELSE at
        node == all[k]
        updated ==
            IF pl.comp # 0
            THEN [node EXCEPT
                    !.components = Append(@, [componentId |-> c.components[pl.comp].id,
                                              type |-> c.components[pl.comp].type,
                                              terminal |-> pl.terminal]),
                    !.isGround = @ \/ c.components[pl.comp].type = "ground"]
            ELSE IF pl.wire \in Range(node.wires) THEN node
            ELSE [node EXCEPT !.wires = Append(@, pl.wire)]
    IN  [all EXCEPT ![k] = updated]

RECURSIVE PlaceAll(_, _, _)
PlaceAll(c, nodes, pls) ==
    IF pls = <<>> THEN nodes ELSE PlaceAll(c, PlaceOne(c, nodes, pls[1]), Tail(pls))

identifyPhysicalNodes(c) ==
    PlaceAll(c, <<>>, ComponentPlacements(c) \o WirePlacements(c))

\* index of the first node within tolerance of (x, y), 0 when there is none
findNodeAtPosition(nodes, x, y) ==
    FindIndex(nodes, LAMBDA n : /\ Abs(n.x - x) < NodeTolerance
                                /\ Abs(n.y - y) < NodeTolerance)

-----------------------------------------------------------------------------
(* NodeAnalyzer: electrical nodes *)

\* the pairs of physical nodes handed to unionFind.union
IdealLinks(physicalNodes, c) ==
    { <<findNodeAtPosition(physicalNodes, c.wires[i].start.x, c.wires[i].start.y),
        findNodeAtPosition(physicalNodes, c.wires[i].end.x, c.wires[i].end.y)>> :
        i \in { j \in 1..Len(c.wires) :
                 /\ c.wires[j].resistance < IdealEpsilon
                 /\ findNodeAtPosition(physicalNodes, c.wires[j].start.x, c.wires[j].start.y) # 0
                 /\ findNodeAtPosition(physicalNodes, c.wires[j].end.x, c.wires[j].end.y) # 0 } }

\* the members of the union-find class of physical node i
RECURSIVE Grow(_, _)
Grow(links, group) ==
    LET next == group \cup { l[2] : l \in { m \in links : m[1] \in group } }
                      \cup { l[1] : l \in { m \in links : m[2] \in group } }
    IN  IF next = group THEN group ELSE Grow(links, next)

UnionFindClass(links, i) == Grow(links, {i})

Min(S) == CHOOSE m \in S : \A o \in S : m <= o

RECURSIVE SortedSeq(_)
SortedSeq(S) == IF S = {} THEN <<>> ELSE <<Min(S)>> \o SortedSeq(S \ {Min(S)})

RECURSIVE ConcatAll(_)
ConcatAll(ss) == IF ss = <<>> THEN <<>> ELSE ss[1] \o ConcatAll(Tail(ss))

RECURSIVE Unique(_, _)
Unique(s, seen) ==
    IF s = <<>> THEN seen
    ELSE Unique(Tail(s), IF s[1] \in Range(seen) THEN seen ELSE Append(seen, s[1]))

classifyNodeType(components, wireCount) ==
    IF Len(components) = 0 /\ wireCount = 0 THEN "isolated"
    ELSE IF \E k \in DOMAIN components : components[k].type = "ground" THEN "ground"
    ELSE IF Len(components) > 0 /\ wireCount = 0 THEN "component_terminal"
    ELSE IF Len(components) = 0 /\ wireCount > 0 THEN "wire_junction"
    ELSE IF Len(components) + wireCount = 2 THEN "simple_connection"
    ELSE IF Len(components) + wireCount > 2 THEN "junction"
    ELSE "unknown"

\* one electrical node per union-find class, in order of first member;
\* the position is the average of the members: sum / count
ElectricalNodeGroups(physicalNodes, c) ==
    LET links == IdealLinks(physicalNodes, c)
        firsts == { i \in 1..Len(physicalNodes) : i = Min(UnionFindClass(links, i)) }
        order == SortedSeq(firsts)
        Build(i) ==
            LET members == SortedSeq(UnionFindClass(links, i))
                comps == ConcatAll([k \in 1..Len(members) |-> physicalNodes[members[k]].components])
                ws == Unique(ConcatAll([k \in 1..Len(members) |-> physicalNodes[members[k]].wires]), <<>>)
            IN  [physicalNodes |-> members,
                 sumX |-> ReduceAdd([k \in 1..Len(members) |-> Num(physicalNodes[members[k]].x)], Zero)[1],
                 sumY |-> ReduceAdd([k \in 1..Len(members) |-> Num(physicalNodes[members[k]].y)], Zero)[1],
                 count |-> Len(members),
                 components |-> comps,
                 wires |-> ws,
                 isGround |-> \E k \in 1..Len(members) : physicalNodes[members[k]].isGround,
                 type |-> classifyNodeType(comps, Len(ws))]
    IN  [k \in 1..Len(order) |-> Build(order[k])]

\* index of the first electrical node whose average position is within
\* tolerance of (x, y), 0 when there is none
findElectricalNodeAtPosition(electricalNodes, x, y) ==
    FindIndex(electricalNodes,
              LAMBDA n : /\ Abs(n.sumX - n.count * x) < NodeTolerance * n.count
                         /\ Abs(n.sumY - n.count * y) < NodeTolerance * n.count)

\* the node pairs linked by establishNodeConnections
ConnectionPairs(electricalNodes, c) ==
    LET At(p) == findElectricalNodeAtPosition(electricalNodes, p.x, p.y)
        ofWires == { <<At(c.wires[i].start), At(c.wires[i].end)>> : i \in 1..Len(c.wires) }
        ofComps == { <<At(c.components[i].pts[1]), At(c.components[i].pts[2])>> :
                       i \in { j \in 1..Len(c.components) :
                                /\ c.components[j].type # "ground"
                                /\ Len(c.components[j].pts) >= 2 } }
    IN  { pr \in ofWires \cup ofComps : pr[1] # 0 /\ pr[2] # 0 /\ pr[1] # pr[2] }

establishNodeConnections(electricalNodes, c) ==
    LET pairs == ConnectionPairs(electricalNodes, c)
    IN  [k \in 1..Len(electricalNodes) |->
            [id |-> k,
             physicalNodes |-> electricalNodes[k].physicalNodes,
             sumX |-> electricalNodes[k].sumX,
             sumY |-> electricalNodes[k].sumY,
             count |-> electricalNodes[k].count,
             components |-> electricalNodes[k].components,
             wires |-> electricalNodes[k].wires,
             isGround |-> electricalNodes[k].isGround,
             type |-> electricalNodes[k].type,
             connections |-> { pr[2] : pr \in { q \in pairs : q[1] = k } }
                             \cup { pr[1] : pr \in { q \in pairs : q[2] = k } }]]

createElectricalNodes(physicalNodes, c) ==
    establishNodeConnections(ElectricalNodeGroups(physicalNodes, c), c)

\* NodeAnalyzer.getComponentImpedance at frequency 0, real part
getComponentImpedance(component) ==
    CASE component.type = "resistor" ->
            (IF component.valueIsText THEN NaN ELSE Num(component.value))
      [] component.type = "capacitor" -> Infinity
      [] component.type \in {"voltage", "current"} -> Num(component.internalResistance)
      [] OTHER -> Zero

identifyBranches(c, electricalNodes) ==
    LET At(p) == findElectricalNodeAtPosition(electricalNodes, p.x, p.y)
        compIdx == Filter([i \in 1..Len(c.components) |-> i],
                          LAMBDA i : /\ c.components[i].type # "ground"
                                     /\ Len(c.components[i].pts) >= 2
                                     /\ At(c.components[i].pts[1]) # 0
                                     /\ At(c.components[i].pts[2]) # 0)
        wireIdx == Filter([i \in 1..Len(c.wires) |-> i],
                          LAMBDA i : /\ c.wires[i].resistance > IdealEpsilon
                                     /\ At(c.wires[i].start) # 0
                                     /\ At(c.wires[i].end) # 0
                                     /\ At(c.wires[i].start) # At(c.wires[i].end))
        ofComp(k) == [id |-> k, type |-> c.components[compIdx[k]].type,
                      componentId |-> c.components[compIdx[k]].id, wireId |-> "",
                      component |-> compIdx[k],
                      startNodeId |-> At(c.components[compIdx[k]].pts[1]),
                      endNodeId |-> At(c.components[compIdx[k]].pts[2]),
                      impedance |-> getComponentImpedance(c.components[compIdx[k]])]
        ofWire(k) == [id |-> Len(compIdx) + k, type |-> "wire",
                      componentId |-> "", wireId |-> c.wires[wireIdx[k]].id,
                      component |-> 0,
                      startNodeId |-> At(c.wires[wireIdx[k]].start),
                      endNodeId |-> At(c.wires[wireIdx[k]].end),
                      impedance |-> Rat(c.wires[wireIdx[k]].resistance, 1000000)]
    IN  [k \in 1..Len(compIdx) |-> ofComp(k)] \o [k \in 1..Len(wireIdx) |-> ofWire(k)]

-----------------------------------------------------------------------------
(* NodeAnalyzer: topology *)

detectSeriesCircuit(nodes, branches) ==
    LET nonTerminal == { k \in 1..Len(nodes) :
                           ~nodes[k].isGround /\ nodes[k].type # "component_terminal" }
    IN  /\ nonTerminal # {}
        /\ \A k \in nonTerminal : Cardinality(nodes[k].connections) = 2

detectParallelCircuit(nodes, branches) ==
    LET first == FindIndex(branches, LAMBDA b : b.type # "wire")
    IN  /\ Len(branches) > 1
        /\ first # 0
        /\ \A k \in 1..Len(branches) :
              (branches[k].type # "wire" /\ branches[k].id # branches[first].id) =>
                 \/ /\ branches[k].startNodeId = branches[first].startNodeId
                    /\ branches[k].endNodeId = branches[first].endNodeId
                 \/ /\ branches[k].startNodeId = branches[first].endNodeId
                    /\ branches[k].endNodeId = branches[first].startNodeId

detectLadderCircuit(nodes, branches) ==
    LET counts == { Cardinality(nodes[k].connections) : k \in 1..Len(nodes) }
    IN  Cardinality(counts) = 2 /\ 2 \in counts /\ 3 \in counts

detectBridgeCircuit(nodes, branches) ==
    /\ Len(nodes) = 5
    /\ Cardinality({ k \in 1..5 : Cardinality(nodes[k].connections) = 3 }) = 4
    /\ Cardinality({ k \in 1..5 : Cardinality(nodes[k].connections) = 2 }) = 1

\* the walk of findMeshFromBranch: [mesh, visited]
RECURSIVE MeshWalk(_, _, _, _, _, _)
MeshWalk(allBranches, mesh, visited, currentNode, startNode, iterations) ==
    LET next == FindIndex(allBranches,
                          LAMBDA b : /\ b.id \notin visited
                                     /\ (b.startNodeId = currentNode \/ b.endNodeId = currentNode))
    IN  IF currentNode = startNode \/ iterations >= Len(allBranches) + 1 \/ next = 0
        THEN [mesh |-> mesh, visited |-> visited]
        ELSE MeshWalk(allBranches, Append(mesh, allBranches[next].id),
                      visited \cup {allBranches[next].id},
                      IF allBranches[next].startNodeId = currentNode
                      THEN allBranches[next].endNodeId
                      ELSE allBranches[next].startNodeId,
                      startNode, iterations + 1)

\* a walk that keeps a visited set of its own
findMeshFromBranchOwnVisited(startBranch, allBranches, visitedBranches) ==
    [mesh |-> MeshWalk(allBranches, <<startBranch.id>>, {startBranch.id},
                       startBranch.endNodeId, startBranch.startNodeId, 0).mesh,
     visited |-> visitedBranches \cup {startBranch.id}]

findMeshFromBranch(startBranch, allBranches, visitedBranches) ==
    MeshWalk(allBranches, <<startBranch.id>>, visitedBranches \cup {startBranch.id},
             startBranch.endNodeId, startBranch.startNodeId, 0)

RECURSIVE MeshesFrom(_, _, _, _)
MeshesFrom(branches, k, visited, meshes) ==
    IF k > Len(branches) THEN meshes
    ELSE IF branches[k].id \in visited THEN MeshesFrom(branches, k + 1, visited, meshes)
    ELSE LET w == findMeshFromBranch(branches[k], branches, visited)
         IN  MeshesFrom(branches, k + 1, w.visited,
                        IF Len(w.mesh) > 2 THEN Append(meshes, w.mesh) ELSE meshes)

findMeshes(nodes, branches) == MeshesFrom(branches, 1, {}, <<>>)

analyzeTopology(electricalNodes, branches, c) ==
    LET series == detectSeriesCircuit(electricalNodes, branches)
        parallel == detectParallelCircuit(electricalNodes, branches)
        ladder == detectLadderCircuit(electricalNodes, branches)
        bridge == detectBridgeCircuit(electricalNodes, branches)
        meshes == findMeshes(electricalNodes, branches)
    IN  [isSeriesCircuit |-> series, isParallelCircuit |-> parallel,
         isLadderCircuit |-> ladder, isBridgeCircuit |-> bridge,
         meshes |-> meshes, loopCount |-> Len(meshes), hasLoops |-> Len(meshes) > 0,
         description |->
            IF series THEN "serie"
            ELSE IF parallel THEN "paralelo"
            ELSE IF ladder THEN "escalera"
            ELSE IF bridge THEN "puente"
            ELSE IF Len(meshes) = 1 THEN "malla simple"
            ELSE IF Len(meshes) > 1 THEN "multi-malla"
            ELSE "general"]

\* breadth-first closure of `seen` under adjacency
RECURSIVE Reachable(_, _)
Reachable(Adj(_), seen) ==
    LET next == seen \cup UNION { Adj(k) : k \in seen }
    IN  IF next = seen THEN seen ELSE Reachable(Adj, next)

isGraphConnected(nodes) ==
    IF Len(nodes) = 0 THEN TRUE
    ELSE LET Adj(k) == IF k \in 1..Len(nodes) THEN nodes[k].connections ELSE {}
         IN  Cardinality(Reachable(Adj, {1})) = Len(nodes)

\* an error message: the fixed text and the values interpolated into it
Msg(text, args) == <<text, args>>

validateNodeStructure(nodes, branches) ==
    LET isolated == Filter([k \in 1..Len(nodes) |-> k],
                           LAMBDA k : nodes[k].connections = {} /\ ~nodes[k].isGround)
        errors ==
            (IF Len(isolated) > 0 THEN <<Msg("Nodos aislados detectados: ", isolated)>> ELSE <<>>)
            \o (IF \A k \in 1..Len(nodes) : ~nodes[k].isGround
                THEN <<Msg("No se encontró nodo de referencia (ground)", <<>>)>> ELSE <<>>)
            \o (IF ~isGraphConnected(nodes)
                THEN <<Msg("El circuito tiene componentes desconectados", <<>>)>> ELSE <<>>)
            \o ConcatAll([k \in 1..Len(branches) |->
                  IF branches[k].startNodeId \notin 1..Len(nodes)
                     \/ branches[k].endNodeId \notin 1..Len(nodes)
                  THEN <<Msg("Rama conecta nodos inválidos", <<branches[k].id>>)>> ELSE <<>>])
    IN  [isValid |-> errors = <<>>, error |-> errors]

analyzeNodes(c) ==
    LET Assemble(electricalNodes, branches, topology, validation) ==
            [isValid |-> validation.isValid,
             error |-> validation.error,
             nodes |-> electricalNodes,
             branches |-> branches,
             topology |-> topology,
             nodeCount |-> Len(electricalNodes),
             branchCount |-> Len(branches),
             voltageSourceCount |-> Len(Filter(branches, LAMBDA b : b.type = "voltage")),
             currentSourceCount |-> Len(Filter(branches, LAMBDA b : b.type = "current"))]
        WithBranches(electricalNodes, branches) ==
            Assemble(electricalNodes, branches,
                     analyzeTopology(electricalNodes, branches, c),
                     validateNodeStructure(electricalNodes, branches))
        WithNodes(electricalNodes) ==
            WithBranches(electricalNodes, identifyBranches(c, electricalNodes))
    IN  WithNodes(createElectricalNodes(identifyPhysicalNodes(c), c))

\* checkBasicConnectivity: [threw, isConnected]; componentGraph.get(id) of an
\* id that no component has is undefined, and .add on it throws a TypeError
checkBasicConnectivity(c) ==
    LET ids == { c.components[i].id : i \in 1..Len(c.components) }
        attached == { i \in 1..Len(c.wires) :
                        c.wires[i].startComponent # "null" /\ c.wires[i].endComponent # "null" }
        Adj(id) == { c.wires[i].endComponent : i \in { j \in attached : c.wires[j].startComponent = id } }
                   \cup { c.wires[i].startComponent : i \in { j \in attached : c.wires[j].endComponent = id } }
    IN  IF Len(c.components) = 0 THEN [threw |-> FALSE, isConnected |-> FALSE]
        ELSE IF Len(c.wires) = 0 THEN [threw |-> FALSE, isConnected |-> FALSE]
        ELSE IF \E i \in attached : c.wires[i].startComponent \notin ids
                                    \/ c.wires[i].endComponent \notin ids
        THEN [threw |-> TRUE, isConnected |-> FALSE]
        ELSE [threw |-> FALSE,
              isConnected |-> Cardinality(Reachable(Adj, {c.components[1].id})) = Len(c.components)]

-----------------------------------------------------------------------------
(* CircuitAnalyzer: validation *)

validateComponent(component) ==
    LET v == component.value
        numeric == ~component.valueIsText
        \* comparisons of a non-numeric string with a number are false
        errors ==
            (IF ~numeric THEN <<"Valor no es un número válido">> ELSE <<>>)
            \o (CASE component.type = "resistor" /\ numeric /\ v <= 0 ->
                        <<"La resistencia debe ser mayor que cero">>
                  [] component.type = "capacitor" /\ numeric /\ v <= 0 ->
                        <<"La capacitancia debe ser mayor que cero">>
                  [] component.type = "inductor" /\ numeric /\ v <= 0 ->
                        <<"La inductancia debe ser mayor que cero">>
                  [] OTHER -> <<>>)
        warnings ==
            CASE component.type = "resistor" /\ numeric /\ v < 1 /\ 10 * v < 1 ->
                    <<Msg("Resistencia muy baja: puede causar problemas numéricos", <<>>)>>
              [] component.type = "voltage" /\ numeric /\ Abs(v) > 1000 ->
                    <<Msg("Voltaje muy alto: verificar seguridad", <<>>)>>
              [] component.type = "current" /\ numeric /\ Abs(v) > 100 ->
                    <<Msg("Corriente muy alta: verificar seguridad", <<>>)>>
              [] OTHER -> <<>>
    IN  [isValid |-> errors = <<>>, error |-> errors, warnings |-> warnings]

\* validateCircuit: [threw, isValid, error, warnings]
validateCircuit(c, nodeAnalyzerIsNull) ==
    LET OfType(t) == Filter(c.components, LAMBDA x : x.type = t)
        sources == Len(OfType("voltage")) + Len(OfType("current"))
        perComponent == [i \in 1..Len(c.components) |-> validateComponent(c.components[i])]
        connectivity == checkBasicConnectivity(c)
        errors ==
            (IF Len(c.components) = 0 THEN <<Msg("El circuito no contiene componentes", <<>>)>> ELSE <<>>)
            \o (IF sources = 0
                THEN <<Msg("El circuito debe tener al menos una fuente de voltaje o corriente", <<>>)>>
                ELSE <<>>)
            \o ConcatAll([i \in 1..Len(c.components) |->
                  IF perComponent[i].isValid THEN <<>>
                  ELSE <<Msg(c.components[i].id, perComponent[i].error)>>])   \* label: the id
            \o (IF ~connectivity.isConnected
                THEN <<Msg("Circuito contiene componentes desconectados", <<>>)>> ELSE <<>>)
        warnings ==
            (IF Len(OfType("resistor")) = 0
             THEN <<Msg("Circuito sin resistencias: puede tener comportamiento inestable", <<>>)>> ELSE <<>>)
            \o (IF Len(OfType("ground")) = 0
                THEN <<Msg("No se encontró referencia a tierra: se asignará automáticamente", <<>>)>> ELSE <<>>)
            \o (IF Len(OfType("ground")) > 1
                THEN <<Msg("Múltiples referencias a tierra detectadas", <<>>)>> ELSE <<>>)
            \o ConcatAll([i \in 1..Len(c.components) |-> perComponent[i].warnings])
    IN  IF nodeAnalyzerIsNull \/ connectivity.threw
        THEN [threw |-> TRUE, isValid |-> FALSE, error |-> <<>>, warnings |-> <<>>]
        ELSE [threw |-> FALSE, isValid |-> errors = <<>>, error |-> errors, warnings |-> warnings]

-----------------------------------------------------------------------------
(* CircuitMatrixBuilder *)

BuilderToleranceExp == 12    \* CircuitMatrixBuilder.tolerance = 1e-12

\* a > 10^(-e) for a non-negative number a
AbovePow10(a, e) ==
    /\ ~IsNaN(a)
    /\ (a[2] = 0 \/ (a[1] > 0 /\ ~LtPow10(a[1], a[2] + 1, e)))

createMatrix(rows, cols) == [i \in 1..rows |-> [j \in 1..cols |-> Zero]]

\* the value of a component as an operand of arithmetic
NumericValue(component) == IF component.valueIsText THEN NaN ELSE Num(component.value)

\* createIndexMappings: node ids in matrix-row order (ground left out), ground id
GroundNodeId(nodeAnalysis) == FindIndex(nodeAnalysis.nodes, LAMBDA n : n.isGround)

NodeIndexMap(nodeAnalysis) ==
    Filter([k \in 1..Len(nodeAnalysis.nodes) |-> k], LAMBDA k : k # GroundNodeId(nodeAnalysis))

\* row (1-based) of a node id in the index map, 0 for `undefined`
RowOf(nodeIndexMap, nodeId) == FindIndex(nodeIndexMap, LAMBDA k : k = nodeId)

calculateAdmittance(impedanceReal) ==
    LET denominator == RMul(impedanceReal, impedanceReal)
    IN  IF BelowPow10(denominator, BuilderToleranceExp) THEN Infinity
        ELSE RDiv(impedanceReal, denominator)

\* the stamp without the mutual term of the end node's row
addBranchToNodalMatrixOneSided(branch, G, rhs, nodeIndexMap, c) ==
    LET Add(M, i, j, v) == [M EXCEPT ![i][j] = RAdd(@, v)]
        Inject(a, e, cur) == IF e # 0 THEN [a EXCEPT ![e] = RAdd(@, cur)] ELSE a
        Stamp(s, e, y, cur) ==
            IF ~IsFinite(y) THEN [G |-> G, rhs |-> rhs]
            ELSE [G |-> IF s # 0 /\ e # 0
                        THEN Add(Add(Add(G, s, s, y), e, e, y), s, e, RNeg(y))
                        ELSE IF s # 0 THEN Add(G, s, s, y)
                        ELSE IF e # 0 THEN Add(G, e, e, y)
                        ELSE G,
                  rhs |-> IF branch.type # "current" THEN rhs
                          ELSE Inject(IF s # 0 THEN [rhs EXCEPT ![s] = RSub(@, cur)] ELSE rhs, e, cur)]
    IN  Stamp(RowOf(nodeIndexMap, branch.startNodeId),
              RowOf(nodeIndexMap, branch.endNodeId),
              calculateAdmittance(branch.impedance),
              IF branch.type = "current" THEN NumericValue(c.components[branch.component]) ELSE Zero)

\* G and I after addBranchToNodalMatrix(branch)
addBranchToNodalMatrix(branch, G, rhs, nodeIndexMap, c) ==
    LET Add(M, i, j, v) == [M EXCEPT ![i][j] = RAdd(@, v)]
        Inject(a, e, cur) == IF e # 0 THEN [a EXCEPT ![e] = RAdd(@, cur)] ELSE a
        Stamp(s, e, y, cur) ==
            IF ~IsFinite(y) THEN [G |-> G, rhs |-> rhs]
            ELSE [G |-> IF s # 0 /\ e # 0
                        THEN Add(Add(Add(Add(G, s, s, y), e, e, y), s, e, RNeg(y)), e, s, RNeg(y))
                        ELSE IF s # 0 THEN Add(G, s, s, y)
                        ELSE IF e # 0 THEN Add(G, e, e, y)
                        ELSE G,
                  rhs |-> IF branch.type # "current" THEN rhs
                          ELSE Inject(IF s # 0 THEN [rhs EXCEPT ![s] = RSub(@, cur)] ELSE rhs, e, cur)]
    IN  Stamp(RowOf(nodeIndexMap, branch.startNodeId),
              RowOf(nodeIndexMap, branch.endNodeId),
              calculateAdmittance(branch.impedance),
              IF branch.type = "current" THEN NumericValue(c.components[branch.component]) ELSE Zero)

RECURSIVE AddBranches(_, _, _, _, _, _)
AddBranches(branches, k, G, rhs, nodeIndexMap, c) ==
    LET Rest(r) == AddBranches(branches, k + 1, r.G, r.rhs, nodeIndexMap, c)
    IN  IF k > Len(branches) THEN [G |-> G, rhs |-> rhs]
        ELSE Rest(addBranchToNodalMatrix(branches[k], G, rhs, nodeIndexMap, c))

\* the expanded right-hand side left behind by handleVoltageSourcesNodal
handleVoltageSourcesNodal(c, nodeAnalysis, rhs, n) ==
    LET sources == Filter(nodeAnalysis.branches, LAMBDA b : b.type = "voltage")
    IN  IF Len(sources) = 0 THEN rhs
        ELSE [i \in 1..(n + Len(sources)) |->
                IF i <= n THEN rhs[i] ELSE NumericValue(c.components[sources[i - n].component])]

\* buildNodalMatrices: the system matrix is the n x n admittance matrix
\* (line 125 assigns it after the voltage-source expansion), the right-hand
\* side is the one handleVoltageSourcesNodal left in place
buildNodalMatrices(c, nodeAnalysis) ==
    LET Assemble(n, filled) ==
            [threw |-> FALSE, error |-> "",
             systemMatrix |-> filled.G,
             rightHandSide |-> handleVoltageSourcesNodal(c, nodeAnalysis, filled.rhs, n),
             dimensions |-> [rows |-> n, cols |-> n, variables |-> n]]
        Fill(map) ==
            Assemble(Len(map),
                     AddBranches(nodeAnalysis.branches, 1, createMatrix(Len(map), Len(map)),
                                 [i \in 1..Len(map) |-> Zero], map, c))
    IN  Fill(NodeIndexMap(nodeAnalysis))

BranchById(branches, id) == branches[FindIndex(branches, LAMBDA b : b.id = id)]

\* reduce((sum, branch) => sum + (branch.impedance.real || 0), 0)
SumImpedance(branches, ids) ==
    ReduceAdd([k \in 1..Len(ids) |-> OrZero(BranchById(branches, ids[k]).impedance)], Zero)

buildMeshMatrices(c, nodeAnalysis) ==
    LET meshes == nodeAnalysis.topology.meshes
        m == Len(meshes)
        br == nodeAnalysis.branches
        shared(i, j) == Filter(meshes[i], LAMBDA id : id \in Range(meshes[j]))
        Z == [i \in 1..m |-> [j \in 1..m |->
                 IF i = j THEN SumImpedance(br, meshes[i]) ELSE SumImpedance(br, shared(i, j))]]
        E == [i \in 1..m |->
                 ReduceAdd([k \in 1..Len(meshes[i]) |->
                     IF BranchById(br, meshes[i][k]).type = "voltage"
                     THEN NumericValue(c.components[BranchById(br, meshes[i][k]).component])
                     ELSE Zero], Zero)]
    IN  IF m = 0
        THEN [threw |-> TRUE, error |-> "No se encontraron mallas independientes para análisis"]
        ELSE [threw |-> FALSE, error |-> "", systemMatrix |-> Z, rightHandSide |-> E,
              dimensions |-> [rows |-> m, cols |-> m, variables |-> m]]

buildSeriesMatrices(c, nodeAnalysis) ==
    LET voltageSources == Filter(nodeAnalysis.branches, LAMBDA b : b.type = "voltage")
        resistors == Filter(nodeAnalysis.branches, LAMBDA b : b.type = "resistor")
        totalVoltage == ReduceAdd([k \in 1..Len(voltageSources) |->
                            NumericValue(c.components[voltageSources[k].component])], Zero)
        totalResistance == ReduceAdd([k \in 1..Len(resistors) |-> resistors[k].impedance], Zero)
    IN  IF Len(voltageSources) = 0
        THEN [threw |-> TRUE, error |-> "Circuito serie sin fuente de voltaje"]
        ELSE [threw |-> FALSE, error |-> "",
              systemMatrix |-> <<<<totalResistance>>>>,
              rightHandSide |-> <<totalVoltage>>,
              dimensions |-> [rows |-> 1, cols |-> 1, variables |-> 1,
                              totalResistance |-> totalResistance,
                              totalVoltage |-> totalVoltage]]

\* `x || 1`
OrOne(a) == IF IsNaN(a) \/ a = Zero THEN Num(1) ELSE a

buildParallelMatrices(c, nodeAnalysis) ==
    LET voltageSources == Filter(nodeAnalysis.branches, LAMBDA b : b.type = "voltage")
        resistors == Filter(nodeAnalysis.branches, LAMBDA b : b.type = "resistor")
        n == Len(resistors)
        sourceVoltage == NumericValue(c.components[voltageSources[1].component])
    IN  IF Len(voltageSources) = 0
        THEN [threw |-> TRUE, error |-> "Circuito paralelo sin fuente de voltaje"]
        ELSE [threw |-> FALSE, error |-> "",
              systemMatrix |-> [i \in 1..n |-> [j \in 1..n |->
                                  IF i = j THEN OrOne(resistors[i].impedance) ELSE Zero]],
              rightHandSide |-> [i \in 1..n |-> sourceVoltage],
              dimensions |-> [rows |-> n, cols |-> n, variables |-> n,
                              sourceVoltage |-> sourceVoltage]]

\* determinant of a matrix of at most 3 rows, product of the diagonal beyond
Det3(m) ==
    LET n == Len(m)
        P(a, b) == RMul(a, b)
    IN  IF n = 1 THEN m[1][1]
        ELSE IF n = 2 THEN RSub(P(m[1][1], m[2][2]), P(m[1][2], m[2][1]))
        ELSE IF n = 3
        THEN RAdd(RSub(P(m[1][1], RSub(P(m[2][2], m[3][3]), P(m[2][3], m[3][2]))),
                       P(m[1][2], RSub(P(m[2][1], m[3][3]), P(m[2][3], m[3][1])))),
                  P(m[1][3], RSub(P(m[2][1], m[3][2]), P(m[2][2], m[3][1]))))
        ELSE LET RECURSIVE Prod(_)
                 Prod(i) == IF i > n THEN Num(1) ELSE RMul(m[i][i], Prod(i + 1))
             IN  Prod(1)

calculateDeterminant(matrix) == Det3(matrix)

\* the sum of |row[j]| over the columns j other than `skip` (0: every column)
AbsRowSum(row, skip) ==
    ReduceAdd([j \in 1..Len(row) |-> IF j = skip THEN Zero ELSE RAbs(row[j])], Zero)

estimateRank(matrix) ==
    Cardinality({ i \in 1..Len(matrix) : AbovePow10(AbsRowSum(matrix[i], 0), BuilderToleranceExp) })

checkDiagonalDominance(matrix) ==
    \A i \in 1..Len(matrix) : ~RLt(RAbs(matrix[i][i]), AbsRowSum(matrix[i], i))

checkSymmetry(matrix) ==
    \A i, j \in 1..Len(matrix) :
        ~AbovePow10(RAbs(RSub(matrix[i][j], matrix[j][i])), BuilderToleranceExp)

\* checkMatrixConditioning; warning "" stands for the absent property
checkMatrixConditioning(matrix) ==
    LET Report(determinant, dominant, singular) ==
            [determinant |-> determinant,
             rank |-> estimateRank(matrix),
             isDiagonallyDominant |-> dominant,
             isSymmetric |-> checkSymmetry(matrix),
             isSingular |-> singular,
             isPositiveDefinite |-> FALSE,
             warning |-> IF ~dominant
                         THEN "Matriz no es diagonalmente dominante - posible inestabilidad numérica"
                         ELSE IF singular THEN "Matriz singular o cerca de singular"
                         ELSE ""]
        WithDeterminant(determinant) ==
            Report(determinant, checkDiagonalDominance(matrix),
                   BelowPow10(RAbs(determinant), BuilderToleranceExp))
    IN  WithDeterminant(calculateDeterminant(matrix))

Methods == {"nodal", "nodal_modified", "mesh", "mesh_modified", "series", "parallel", "ladder"}

buildSystemMatrices(c, nodeAnalysis, method) ==
    LET Finish(built) ==
            IF built.threw
            THEN [isValid |-> FALSE, error |-> Msg("Error en construcción de matrices: ", <<built.error>>)]
            ELSE [isValid |-> TRUE, error |-> <<>>, method |-> method,
                  systemMatrix |-> built.systemMatrix,
                  rightHandSide |-> built.rightHandSide,
                  nodeIndexMap |-> NodeIndexMap(nodeAnalysis),
                  branchIndexMap |-> [k \in 1..Len(nodeAnalysis.branches) |-> nodeAnalysis.branches[k].id],
                  groundNodeId |-> GroundNodeId(nodeAnalysis),
                  dimensions |-> built.dimensions,
                  conditioning |-> checkMatrixConditioning(built.systemMatrix)]
    IN  IF method \notin Methods
        THEN [isValid |-> FALSE, error |-> Msg("Método no soportado: ", <<method>>)]
        ELSE Finish(CASE method \in {"nodal", "nodal_modified", "ladder"} -> buildNodalMatrices(c, nodeAnalysis)
                      [] method \in {"mesh", "mesh_modified"} -> buildMeshMatrices(c, nodeAnalysis)
                      [] method = "series" -> buildSeriesMatrices(c, nodeAnalysis)
                      [] method = "parallel" -> buildParallelMatrices(c, nodeAnalysis))

-----------------------------------------------------------------------------
(* EquationSolver *)

SolverToleranceExp == 10     \* EquationSolver.tolerance = 1e-10
maxIterations == 1000        \* EquationSolver.maxIterations

\* validateInput: the message thrown, "" when the input is accepted
validateInput(matrices) ==
    LET matrix == matrices.systemMatrix
        rhs == matrices.rightHandSide
    IN  IF Len(matrix) = 0 THEN "Matriz del sistema vacía"
        ELSE IF Len(matrix[1]) = 0 THEN "Matriz del sistema vacía"
        ELSE IF Len(matrix) # Len(matrix[1]) THEN "Matriz no cuadrada"
        ELSE IF Len(matrix) # Len(rhs) THEN "Dimensiones inconsistentes"
        ELSE ""

selectSolverMethod(matrices) ==
    LET n == Len(matrices.systemMatrix)
        conditioning == matrices.conditioning
    IN  IF matrices.method = "series" THEN "series_simple"
        ELSE IF matrices.method = "parallel" THEN "parallel_simple"
        ELSE IF n <= 3 /\ AbovePow10(RAbs(conditioning.determinant), SolverToleranceExp) THEN "cramer"
        ELSE IF conditioning.isSymmetric /\ conditioning.isPositiveDefinite THEN "cholesky"
        ELSE IF conditioning.warning = ""
        THEN (IF n <= 10 THEN "direct_elimination" ELSE "lu_decomposition")
        ELSE IF conditioning.isDiagonallyDominant THEN "iterative_gauss_seidel"
        ELSE "direct_elimination"

\* ||Ax - b||^2 : calculateResidual before its Math.sqrt
ResidualSquared(A, b, x) ==
    ReduceAdd([i \in 1..Len(A) |->
                 LET sum == ReduceAdd([j \in 1..Len(A) |-> RMul(A[i][j], x[j])], Zero)
                     diff == RSub(sum, b[i])
                 IN  RMul(diff, diff)], Zero)

\* calculateResidual(A, b, x) < 10^(-e), through the squares
ResidualBelow(A, b, x, e) == BelowPow10(ResidualSquared(A, b, x), 2 * e)

\* swap of rows i and k
SwapRows(m, i, k) == [m EXCEPT ![i] = m[k], ![k] = m[i]]

\* the row picked by the partial pivoting scan of column i
RECURSIVE PivotRow(_, _, _, _)
PivotRow(aug, i, k, maxRow) ==
    IF k > Len(aug) THEN maxRow
    ELSE PivotRow(aug, i, k + 1,
                  IF RGt(RAbs(aug[k][i]), RAbs(aug[maxRow][i])) THEN k ELSE maxRow)

\* rows below i after the elimination of column i
Eliminate(aug, i) ==
    [k \in 1..Len(aug) |->
        IF k <= i THEN aug[k]
        ELSE LET factor == RDiv(aug[k][i], aug[i][i])
             IN  [j \in 1..Len(aug[k]) |->
                    IF j < i THEN aug[k][j] ELSE RSub(aug[k][j], RMul(factor, aug[i][j]))]]

\* forward phase from column i: [threw, aug]
RECURSIVE Forward(_, _)
Forward(aug, i) ==
    LET Step(swapped) ==
            IF BelowPow10(RAbs(swapped[i][i]), SolverToleranceExp)
            THEN [threw |-> TRUE, aug |-> swapped]
            ELSE Forward(Eliminate(swapped, i), i + 1)
        Swap(maxRow) == Step(IF maxRow # i THEN SwapRows(aug, i, maxRow) ELSE aug)
    IN  IF i > Len(aug) THEN [threw |-> FALSE, aug |-> aug]
        ELSE Swap(PivotRow(aug, i, i + 1, i))

\* back substitution of rows i..1; x holds the entries already computed
RECURSIVE BackSubstitute(_, _, _)
BackSubstitute(aug, i, x) ==
    IF i < 1 THEN x
    ELSE LET n == Len(aug)
             rest == ReduceAdd([j \in 1..n |-> IF j > i THEN RMul(aug[i][j], x[j]) ELSE Zero], Zero)
             xi == RDiv(RSub(aug[i][n + 1], rest), aug[i][i])
         IN  BackSubstitute(aug, i - 1, [x EXCEPT ![i] = xi])

gaussianElimination(A, b) ==
    LET Back(n, fwd) ==
            IF fwd.threw
            THEN [isValid |-> FALSE, error |-> "Error en eliminación gaussiana: Elemento pivote muy pequeño",
                  hasValues |-> TRUE, values |-> [i \in 1..n |-> Zero], iterations |-> 0]
            ELSE [isValid |-> TRUE, error |-> "", hasValues |-> TRUE,
                  values |-> BackSubstitute(fwd.aug, n, [i \in 1..n |-> Zero]), iterations |-> 0]
    IN  Back(Len(A), Forward([i \in 1..Len(A) |-> Append(A[i], b[i])], 1))

\* one Gauss-Seidel sweep: component i uses the components already updated
RECURSIVE Sweep(_, _, _, _)
Sweep(A, b, x, i) ==
    IF i > Len(A) THEN x
    ELSE LET sum == ReduceAdd([j \in 1..Len(A) |-> IF j # i THEN RMul(A[i][j], x[j]) ELSE Zero], Zero)
         IN  Sweep(A, b, [x EXCEPT ![i] = RDiv(RSub(b[i], sum), A[i][i])], i + 1)

\* the loop state of an iterative method before its first sweep
FirstApproximation(A) ==
    [x |-> [i \in 1..Len(A) |-> Zero], iter |-> 0, converged |-> FALSE, residuals |-> <<>>]

\* the loop state after a sweep that gave `next` with squared residual `residual`
Swept(st, next, residual) ==
    [x |-> next, iter |-> st.iter + 1,
     converged |-> BelowPow10(residual, 2 * SolverToleranceExp),
     residuals |-> Append(st.residuals, residual)]

\* the pass that pushes no residual
GaussSeidelIterationUnrecorded(A, b, st) ==
    LET Check(next) == [Swept(st, next, ResidualSquared(A, b, next)) EXCEPT
                            !.residuals = st.residuals]
    IN  IF st.converged THEN st ELSE Check(Sweep(A, b, st.x, 1))

\* one pass of the body of the `for (iter ...)` loop on the loop state
\* [x, iter, converged, residuals] (the residuals squared); a loop that has
\* returned stays as it is
GaussSeidelIteration(A, b, st) ==
    LET Check(next) == Swept(st, next, ResidualSquared(A, b, next))
    IN  IF st.converged THEN st ELSE Check(Sweep(A, b, st.x, 1))

\* `count` passes of the loop body, the passes split in halves
RECURSIVE GaussSeidelLoop(_, _, _, _)
GaussSeidelLoop(A, b, st, count) ==
    LET Rest(half) == IF half.converged THEN half
                      ELSE GaussSeidelLoop(A, b, half, count - count \div 2)
    IN  IF count = 0 THEN st
        ELSE IF count = 1 THEN GaussSeidelIteration(A, b, st)
        ELSE Rest(GaussSeidelLoop(A, b, st, count \div 2))

gaussSeidelMethod(A, b) ==
    LET Answer(end) ==
            IF end.converged
            THEN [isValid |-> TRUE, error |-> "", hasValues |-> TRUE, values |-> end.x,
                  iterations |-> end.iter,
                  convergence |-> [iterations |-> end.iter, residuals |-> end.residuals]]
            ELSE [isValid |-> FALSE, error |-> "Error en método Gauss-Seidel: Gauss-Seidel no convergió",
                  hasValues |-> TRUE, values |-> end.x, iterations |-> 0,
                  convergence |-> [iterations |-> end.iter, residuals |-> end.residuals]]
    IN  Answer(GaussSeidelLoop(A, b, FirstApproximation(A), maxIterations))

\* one Jacobi sweep: every component is computed from the previous approximation
JacobiSweep(A, b, x) ==
    [i \in 1..Len(A) |->
        RDiv(RSub(b[i], ReduceAdd([j \in 1..Len(A) |->
                                     IF j # i THEN RMul(A[i][j], x[j]) ELSE Zero], Zero)),
             A[i][i])]

\* one pass of the body of the `for (iter ...)` loop of jacobiMethod
JacobiIteration(A, b, st) ==
    LET Check(next) == Swept(st, next, ResidualSquared(A, b, next))
    IN  IF st.converged THEN st ELSE Check(JacobiSweep(A, b, st.x))

\* `count` passes of the loop body, the passes split in halves
RECURSIVE JacobiLoop(_, _, _, _)
JacobiLoop(A, b, st, count) ==
    LET Rest(half) == IF half.converged THEN half
                      ELSE JacobiLoop(A, b, half, count - count \div 2)
    IN  IF count = 0 THEN st
        ELSE IF count = 1 THEN JacobiIteration(A, b, st)
        ELSE Rest(JacobiLoop(A, b, st, count \div 2))

\* jacobiMethod: the values are xNew on success and its copy x on failure
jacobiMethod(A, b) ==
    LET Answer(end) ==
            IF end.converged
            THEN [isValid |-> TRUE, error |-> "", hasValues |-> TRUE, values |-> end.x,
                  iterations |-> end.iter,
                  convergence |-> [iterations |-> end.iter, residuals |-> end.residuals]]
            ELSE [isValid |-> FALSE, error |-> "Error en método Jacobi: Jacobi no convergió",
                  hasValues |-> TRUE, values |-> end.x, iterations |-> 0,
                  convergence |-> [iterations |-> end.iter, residuals |-> end.residuals]]
    IN  Answer(JacobiLoop(A, b, FirstApproximation(A), maxIterations))

cramerRule(A, b) ==
    LET Ai(i) == [r \in 1..Len(A) |-> [A[r] EXCEPT ![i] = b[r]]]
        Answer(n, detA) ==
            IF BelowPow10(RAbs(detA), SolverToleranceExp)
            THEN [isValid |-> FALSE, error |-> "Error en regla de Cramer: Determinante muy pequeño para regla de Cramer",
                  hasValues |-> TRUE, values |-> [i \in 1..n |-> Zero], iterations |-> 0]
            ELSE [isValid |-> TRUE, error |-> "", hasValues |-> TRUE,
                  values |-> [i \in 1..n |-> RDiv(Det3(Ai(i)), detA)], iterations |-> 0]
    IN  Answer(Len(A), Det3(A))

solveSeriesCircuit(matrices) ==
    LET totalResistance == matrices.dimensions.totalResistance
        totalVoltage == matrices.dimensions.totalVoltage
    IN  IF RLe(totalResistance, Zero)
        THEN [isValid |-> FALSE, error |-> "Resistencia total inválida en circuito serie",
              hasValues |-> FALSE, values |-> <<>>, iterations |-> 0]
        ELSE [isValid |-> TRUE, error |-> "", hasValues |-> TRUE,
              values |-> <<RDiv(totalVoltage, totalResistance)>>, iterations |-> 0]

solveParallelCircuit(matrices) ==
    LET sourceVoltage == matrices.dimensions.sourceVoltage
        m == matrices.systemMatrix
    IN  [isValid |-> TRUE, error |-> "", hasValues |-> TRUE,
         values |-> [i \in 1..Len(m) |->
                       IF RGt(m[i][i], Zero) THEN RDiv(sourceVoltage, m[i][i]) ELSE Zero],
         iterations |-> 0]

\* a verification that accepts every solution
verifySolutionAcceptingAll(A, b, solution) ==
    [isValid |-> TRUE,
     residualSquared |-> IF solution.hasValues
                         THEN ResidualSquared(A, b, solution.values) ELSE Infinity]

\* verifySolution: [isValid, residualSquared]; reading x[j] of an undefined
\* x throws inside calculateResidual and is answered with residual Infinity
verifySolution(A, b, solution) ==
    IF ~solution.hasValues THEN [isValid |-> FALSE, residualSquared |-> Infinity]
    ELSE [isValid |-> ResidualBelow(A, b, solution.values, SolverToleranceExp - 3),
          residualSquared |-> ResidualSquared(A, b, solution.values)]

\* extractNodeVoltages for a defined solution vector
extractNodeVoltages(values, matrices) ==
    LET size == Len(matrices.nodeIndexMap)
    IN  [i \in 1..(size + 1) |->
            IF i = size + 1 THEN Zero
            ELSE IF i <= Len(values) THEN values[i] ELSE Zero]

\* extractBranchCurrents for a defined solution vector: the Map from branch
\* id to current, as the sequence of its entries in insertion order
extractBranchCurrents(values, matrices) ==
    [k \in 1..Len(matrices.branchIndexMap) |->
        [branchId |-> matrices.branchIndexMap[k],
         current |-> IF matrices.method = "series"
                     THEN (IF Len(values) >= 1 THEN OrZero(values[1]) ELSE Zero)
                     ELSE IF matrices.method = "parallel"
                     THEN (IF k <= Len(values) THEN OrZero(values[k]) ELSE Zero)
                     ELSE Zero]]

\* the `switch (solverMethod)` of solve.  The LU and Cholesky cases are never
\* selected for systems of at most 10 unknowns whose conditioning has no
\* isPositiveDefinite.
RunSolver(solverMethod, matrices) ==
    CASE solverMethod = "direct_elimination" ->
            gaussianElimination(matrices.systemMatrix, matrices.rightHandSide)
      [] solverMethod = "iterative_gauss_seidel" ->
            gaussSeidelMethod(matrices.systemMatrix, matrices.rightHandSide)
      [] solverMethod = "cramer" -> cramerRule(matrices.systemMatrix, matrices.rightHandSide)
      [] solverMethod = "series_simple" -> solveSeriesCircuit(matrices)
      [] solverMethod = "parallel_simple" -> solveParallelCircuit(matrices)

\* EquationSolver.solve.  A solution without values (the invalid series
\* answer) makes extractNodeVoltages / extractBranchCurrents read a property
\* of undefined.
solve(matrices) ==
    LET Answer(solverMethod, solution, verification) ==
            IF ~solution.hasValues
            THEN [isValid |-> FALSE,
                  error |-> Msg("Error en solucionador: ", <<"Cannot read properties of undefined">>)]
            ELSE [isValid |-> solution.isValid,
                  error |-> IF solution.isValid THEN <<>> ELSE Msg(solution.error, <<>>),
                  nodeVoltages |-> extractNodeVoltages(solution.values, matrices),
                  branchCurrents |-> extractBranchCurrents(solution.values, matrices),
                  values |-> solution.values,
                  solverMethod |-> solverMethod,
                  iterations |-> solution.iterations,
                  residualSquared |-> verification.residualSquared,
                  warnings |-> IF verification.isValid THEN <<>> ELSE <<Msg("Verificación falló", <<>>)>>]
        Verify(solverMethod, solution) ==
            Answer(solverMethod, solution,
                   verifySolution(matrices.systemMatrix, matrices.rightHandSide, solution))
    IN  IF validateInput(matrices) # ""
        THEN [isValid |-> FALSE, error |-> Msg("Error en solucionador: ", <<validateInput(matrices)>>)]
        ELSE Verify(selectSolverMethod(matrices), RunSolver(selectSolverMethod(matrices), matrices))

-----------------------------------------------------------------------------
(* OhmLawHelper *)

\* a JavaScript value that is either a number or a text
Number(a) == [isText |-> FALSE, num |-> a]
Text == [isText |-> TRUE, num |-> NaN]

\* Resistor defaults: temperature 25, tempCoefficient 0, isVariable false
getEffectiveResistance(resistor) == NumericValue(resistor)

calculateResistorVoltage(resistor, current) == RMul(current, getEffectiveResistance(resistor))

\* calculateVoltage for a numeric current
calculateVoltage(component, current) ==
    CASE component.type = "resistor" -> Number(calculateResistorVoltage(component, current))
      [] component.type = "voltage" -> (IF component.valueIsText THEN Text ELSE Number(Num(component.value)))
      [] component.type = "current" -> Number(Zero)
      [] OTHER -> Number(RMul(RAbs(current), OrZero(NumericValue(component))))

\* calculatePower(voltage, current): [threw, power]
calculatePower(voltage, current) ==
    IF voltage.isText THEN [threw |-> TRUE, power |-> NaN]
    ELSE [threw |-> FALSE, power |-> RAbs(RMul(voltage.num, current))]

calculateImpedance(component) ==
    CASE component.type = "resistor" -> NumericValue(component)
      [] component.type \in {"voltage", "current"} -> Num(component.internalResistance)
      [] OTHER -> OrZero(NumericValue(component))

\* calculatePowerAnalysis: the totals (per-component reports are not read back)
calculatePowerAnalysis(componentValues, c) ==
    LET TypeOf(v) == c.components[FindIndex(c.components, LAMBDA x : x.id = v.id)].type
        inst(v) == OrZero(v.power)
        Report(totalSupplied, totalDissipated, totalUseful) ==
            [totalSupplied |-> totalSupplied,
             totalDissipated |-> totalDissipated,
             totalStored |-> Zero,
             totalUseful |-> totalUseful,
             efficiency |-> IF RGt(totalSupplied, Zero)
                            THEN RMul(RDiv(totalUseful, totalSupplied), Num(100)) ELSE Zero,
             powerBalance |-> RAbs(RSub(totalSupplied, totalDissipated))]
        Totals(totalSupplied, totalDissipated) ==
            Report(totalSupplied, totalDissipated, RSub(totalSupplied, totalDissipated))
        Sum(known) ==
            Totals(ReduceAdd([k \in 1..Len(known) |->
                       IF TypeOf(known[k]) \in {"voltage", "current"} /\ RGt(inst(known[k]), Zero)
                       THEN inst(known[k]) ELSE Zero], Zero),
                   ReduceAdd([k \in 1..Len(known) |->
                       IF TypeOf(known[k]) = "resistor" THEN inst(known[k])
                       ELSE IF TypeOf(known[k]) \in {"voltage", "current"} THEN Zero
                       ELSE RAbs(inst(known[k]))], Zero))
    IN  Sum(Filter(componentValues,
                   LAMBDA v : \E i \in 1..Len(c.components) : c.components[i].id = v.id))

\* validatePowerBalance(powerAnalysis).error
validatePowerBalance(powerAnalysis) ==
    RAbs(RSub(powerAnalysis.totalSupplied,
              RAdd(powerAnalysis.totalDissipated, powerAnalysis.totalStored)))

-----------------------------------------------------------------------------
(* CircuitAnalyzer: result assembly *)

\* solution.branchCurrents[index]: branchCurrents is a Map, a Map has no own
\* property named by an array index, the read yields undefined and
\* `undefined || 0` is 0
BranchCurrentAt(solution, index) == Zero

\* obj[key] = value on an object kept as the sequence of its entries
Put(entries, entry) ==
    LET at == FindIndex(entries, LAMBDA e : e.id = entry.id)
    IN  IF at = 0 THEN Append(entries, entry) ELSE [entries EXCEPT ![at] = entry]

\* assignCurrentToComponent on the assembly state acc; acc.threw is set when
\* calculatePower throws, the writes made so far stay in place
assignCurrentToComponent(componentId, current, acc) ==
    LET Write(at, component, voltage, p) ==
            IF p.threw THEN [acc EXCEPT !.threw = TRUE]
            ELSE [acc EXCEPT
                    !.componentValues =
                        Put(@, [id |-> componentId, current |-> current, voltage |-> voltage.num,
                                power |-> p.power,
                                resistance |-> IF component.type = "resistor"
                                               THEN [isNull |-> FALSE, num |-> NumericValue(component)]
                                               ELSE [isNull |-> TRUE, num |-> Zero],
                                impedance |-> calculateImpedance(component)]),
                    !.components[at] = [component EXCEPT !.current = current,
                                                         !.voltage = voltage.num,
                                                         !.power = p.power]]
        Compute(at, component, voltage) ==
            Write(at, component, voltage, calculatePower(voltage, current))
        Found(at) ==
            IF at = 0 THEN acc
            ELSE Compute(at, acc.components[at], calculateVoltage(acc.components[at], current))
    IN  Found(FindIndex(acc.components, LAMBDA x : x.id = componentId))

\* the forEach over nodeAnalysis.branches in processResults, from branch k
RECURSIVE AssignBranches(_, _, _, _)
AssignBranches(solution, branches, k, acc) ==
    LET Flow(branch, current, a2) ==
            IF ~a2.threw /\ branch.wireId # ""
            THEN [a2 EXCEPT !.currentFlow = Append(@, [id |-> branch.wireId, current |-> current])]
            ELSE a2
        Assign(branch, current, a1) ==
            Flow(branch, current,
                 IF branch.componentId # ""
                 THEN assignCurrentToComponent(branch.componentId, current, a1) ELSE a1)
        Record(branch, current) ==
            Assign(branch, current,
                   [acc EXCEPT !.branchCurrents = Append(@, [id |-> branch.id, current |-> current])])
    IN  IF k > Len(branches) \/ acc.threw THEN acc
        ELSE AssignBranches(solution, branches, k + 1,
                            Record(branches[k], BranchCurrentAt(solution, k - 1)))

\* calculateTotalMetrics: the fields it assigns
calculateTotalMetrics(method, componentValues, powerAnalysis, c) ==
    LET resistors == Filter(c.components, LAMBDA x : x.type = "resistor")
        voltageSources == Filter(c.components, LAMBDA x : x.type = "voltage")
        totalAdmittance == ReduceAdd([k \in 1..Len(resistors) |->
                               RDiv(Num(1), NumericValue(resistors[k]))], Zero)
        sourceValues == IF Len(voltageSources) = 0 THEN 0
                        ELSE FindIndex(componentValues, LAMBDA v : v.id = voltageSources[1].id)
    IN  [totalResistance |->
            IF Len(resistors) > 0 /\ method = "series"
            THEN ReduceAdd([k \in 1..Len(resistors) |-> NumericValue(resistors[k])], Zero)
            ELSE IF Len(resistors) > 0 /\ method = "parallel"
            THEN (IF RGt(totalAdmittance, Zero) THEN RDiv(Num(1), totalAdmittance) ELSE Infinity)
            ELSE Zero,
         sourceVoltage |->
            ReduceAdd([k \in 1..Len(voltageSources) |-> NumericValue(voltageSources[k])], Zero),
         totalCurrent |->
            IF sourceValues # 0 THEN RAbs(componentValues[sourceValues].current) ELSE Zero,
         totalPower |->
            ReduceAdd([k \in 1..Len(componentValues) |-> RAbs(OrZero(componentValues[k].power))], Zero),
         efficiency |->
            IF RGt(powerAnalysis.totalSupplied, Zero)
            THEN RMul(RDiv(powerAnalysis.totalUseful, powerAnalysis.totalSupplied), Num(100))
            ELSE Zero]

\* processResults at time `now`: [threw, components, results]; components are
\* the circuit's components after the writes of assignCurrentToComponent
processResults(solution, c, nodeAnalysis, method, now) ==
    LET Results(done, powerAnalysis, totals) ==
            [threw |-> done.threw,
             components |-> done.components,
             results |->
                IF done.threw THEN [isValid |-> FALSE]
                ELSE [isValid |-> TRUE,
                      method |-> method,
                      timestamp |-> now,
                      nodeVoltages |-> [k \in 1..Len(nodeAnalysis.nodes) |->
                                          IF k <= Len(solution.nodeVoltages)
                                          THEN OrZero(solution.nodeVoltages[k]) ELSE Zero],
                      branchCurrents |-> done.branchCurrents,
                      componentValues |-> done.componentValues,
                      currentFlow |-> done.currentFlow,
                      powerAnalysis |-> powerAnalysis,
                      circuitType |-> nodeAnalysis.topology.description,
                      totalResistance |-> totals.totalResistance,
                      totalCurrent |-> totals.totalCurrent,
                      totalPower |-> totals.totalPower,
                      sourceVoltage |-> totals.sourceVoltage,
                      efficiency |-> totals.efficiency,
                      warnings |-> IF RGt(validatePowerBalance(powerAnalysis), Rat(1, 100))
                                   THEN <<Msg("Desbalance de potencia: ", <<>>)>> ELSE <<>>,
                      fromCache |-> FALSE]]
        Metrics(done, after, powerAnalysis) ==
            Results(done, powerAnalysis,
                    calculateTotalMetrics(method, done.componentValues, powerAnalysis, after))
        Power(done, after) ==
            Metrics(done, after, calculatePowerAnalysis(done.componentValues, after))
        Assigned(done) == Power(done, [c EXCEPT !.components = done.components])
    IN  Assigned(AssignBranches(solution, nodeAnalysis.branches, 1,
                                [threw |-> FALSE, components |-> c.components,
                                 componentValues |-> <<>>, branchCurrents |-> <<>>,
                                 currentFlow |-> <<>>]))

verifyKirchhoffCurrentLaw(results, c) == TRUE

validateResults(results, c) ==
    LET Of(v) ==
            (IF RGt(RAbs(v.current), Num(1000)) THEN <<Msg("Corriente muy alta en ", <<v.id>>)>> ELSE <<>>)
            \o (IF RGt(RAbs(v.voltage), Num(10000)) THEN <<Msg("Voltaje muy alto en ", <<v.id>>)>> ELSE <<>>)
            \o (IF RGt(RAbs(v.power), Num(100000)) THEN <<Msg("Potencia muy alta en ", <<v.id>>)>> ELSE <<>>)
        warnings == ConcatAll([k \in 1..Len(results.componentValues) |-> Of(results.componentValues[k])])
                    \o (IF ~verifyKirchhoffCurrentLaw(results, c)
                        THEN <<Msg("Posible violación de la ley de Kirchhoff de corrientes", <<>>)>>
                        ELSE <<>>)
    IN  [isValid |-> warnings = <<>>, warnings |-> warnings]

-----------------------------------------------------------------------------
(* CircuitAnalyzer: analyzeCircuit *)

\* the selection with ties going to mesh analysis
selectOptimalMethodTiesToMesh(nodeAnalysis) ==
    LET nodalEquations == nodeAnalysis.nodeCount - 1
        meshEquations == nodeAnalysis.branchCount - nodeAnalysis.nodeCount + 1
        adjustedNodalComplexity == nodalEquations + nodeAnalysis.voltageSourceCount * 2
        adjustedMeshComplexity == meshEquations + nodeAnalysis.currentSourceCount * 2
    IN  IF nodeAnalysis.topology.isSeriesCircuit THEN "series"
        ELSE IF nodeAnalysis.topology.isParallelCircuit THEN "parallel"
        ELSE IF nodeAnalysis.topology.isLadderCircuit THEN "ladder"
        ELSE IF adjustedNodalComplexity < adjustedMeshComplexity
        THEN (IF nodeAnalysis.voltageSourceCount > 0 THEN "nodal_modified" ELSE "nodal")
        ELSE (IF nodeAnalysis.currentSourceCount > 0 THEN "mesh_modified" ELSE "mesh")

selectOptimalMethod(nodeAnalysis) ==
    LET nodalEquations == nodeAnalysis.nodeCount - 1
        meshEquations == nodeAnalysis.branchCount - nodeAnalysis.nodeCount + 1
        adjustedNodalComplexity == nodalEquations + nodeAnalysis.voltageSourceCount * 2
        adjustedMeshComplexity == meshEquations + nodeAnalysis.currentSourceCount * 2
    IN  IF nodeAnalysis.topology.isSeriesCircuit THEN "series"
        ELSE IF nodeAnalysis.topology.isParallelCircuit THEN "parallel"
        ELSE IF nodeAnalysis.topology.isLadderCircuit THEN "ladder"
        ELSE IF adjustedNodalComplexity <= adjustedMeshComplexity
        THEN (IF nodeAnalysis.voltageSourceCount > 0 THEN "nodal_modified" ELSE "nodal")
        ELSE (IF nodeAnalysis.currentSourceCount > 0 THEN "mesh_modified" ELSE "mesh")

\* the stages of analyzeCircuit, in the order of its body
StageOrder == <<"validate", "topology", "method", "matrix", "solve", "assemble", "check">>

\* { isValid: false, error, warnings }
Invalid(error, warnings) ==
    [isValid |-> FALSE, error |-> error, warnings |-> warnings, fromCache |-> FALSE]

\* the catch block rethrowing instead of answering
InternalErrorRethrown == [rejected |-> TRUE]

\* the answer of the catch block
InternalError == Invalid(<<Msg("Error interno del analizador: ", <<>>)>>, <<>>)

\* analyzeCircuit from the resumption of `await this.validateCircuit(circuit)`
\* to its return, on the circuit c as it is at the resumption:
\*   result     what the call returns
\*   components the circuit's components afterwards
\*   stages     the stages that ran, in order (history)
\*   failed     the stage that reported failure, "" when none did (history)
\*   threw      an exception reached the catch block (history)
\*   store      the result is put into the cache
Out(result, components, n, failed, threw, store) ==
    [result |-> result, components |-> components, stages |-> SubSeq(StageOrder, 1, n),
     failed |-> failed, threw |-> threw, store |-> store]

\* validateResults adds its warnings to the result; the result is cached
CheckStage(processed, validation2) ==
    Out([processed.results EXCEPT !.warnings = @ \o validation2.warnings],
        processed.components, 7,
        IF validation2.isValid THEN "" ELSE "check", FALSE, TRUE)

\* after processResults; an exception in it reaches the catch block
AssembleStage(c, processed) ==
    IF processed.threw THEN Out(InternalError, processed.components, 6, "", TRUE, FALSE)
    ELSE CheckStage(processed, validateResults(processed.results, c))

SolveStage(c, nodeAnalysis, analysisMethod, solution, now) ==
    IF ~solution.isValid
    THEN Out(Invalid(<<solution.error>>, <<>>), c.components, 5, "solve", FALSE, FALSE)
    ELSE AssembleStage(c, processResults(solution, c, nodeAnalysis, analysisMethod, now))

\* the matrix stage with its failure answer put into the cache
MatrixStageCachingFailure(c, nodeAnalysis, analysisMethod, matrices, now) ==
    IF ~matrices.isValid
    THEN Out(Invalid(<<matrices.error>>, <<>>), c.components, 4, "matrix", FALSE, TRUE)
    ELSE SolveStage(c, nodeAnalysis, analysisMethod, solve(matrices), now)

MatrixStage(c, nodeAnalysis, analysisMethod, matrices, now) ==
    IF ~matrices.isValid
    THEN Out(Invalid(<<matrices.error>>, <<>>), c.components, 4, "matrix", FALSE, FALSE)
    ELSE SolveStage(c, nodeAnalysis, analysisMethod, solve(matrices), now)

MethodStage(c, nodeAnalysis, analysisMethod, now) ==
    MatrixStage(c, nodeAnalysis, analysisMethod,
                buildSystemMatrices(c, nodeAnalysis, analysisMethod), now)

TopologyStage(c, nodeAnalysis, now) ==
    IF ~nodeAnalysis.isValid
    THEN Out(Invalid(nodeAnalysis.error, <<>>), c.components, 2, "topology", FALSE, FALSE)
    ELSE MethodStage(c, nodeAnalysis, selectOptimalMethod(nodeAnalysis), now)

Continuation(c, validation, isDisposed, now) ==
    IF validation.threw THEN Out(InternalError, c.components, 1, "", TRUE, FALSE)
    ELSE IF ~validation.isValid
    THEN Out(Invalid(validation.error, validation.warnings), c.components, 1, "validate", FALSE, FALSE)
    ELSE IF isDisposed THEN Out(InternalError, c.components, 1, "", TRUE, FALSE)
    ELSE TopologyStage(c, analyzeNodes(c), now)

\* a whole analysis of c with an empty cache and no interleaving
FreshAnalysis(c, now) == Continuation(c, validateCircuit(c, FALSE), FALSE, now).result

-----------------------------------------------------------------------------
(* The analyzer and its callers as a state machine *)

MaxClock == 1            \* readings of the clock range over 0..MaxClock
MoveDistance == 200      \* pixels a dragged part or wire end is displaced by
EditValues == {0, 20000} \* values typed into a component's value field

EditableParts == {2}     \* the components the user edits, by position in circuit.components
EditableWires == {1}     \* the wires the user edits, by position in circuit.wires

\* what a caller passes to analyzeCircuit
Args == {"circuit", "null", "malformed", "dangling", "detached"}

\* the caller's circuit with the end of its first wire attached to an id that
\* no component has
Dangling(c) == [c EXCEPT !.wires[1].endComponent = "X9"]

\* the caller's circuit with the end of its first wire attached to nothing:
\* the components behind that wire are cut off from the first component
Detached(c) == [c EXCEPT !.wires[1].endComponent = "null"]

NoValidation == [threw |-> FALSE, isValid |-> FALSE, error |-> <<>>, warnings |-> <<>>]
NoResult == Invalid(<<>>, <<>>)
NoDone == [live |-> FALSE, result |-> NoResult]

IdleCall ==
    [pc |-> "idle", arg |-> "circuit", circuitHash |-> <<0, 0>>, validation |-> NoValidation,
     result |-> NoResult, stages |-> <<>>, failed |-> "", threw |-> FALSE, stored |-> FALSE,
     wrote |-> FALSE, hit |-> FALSE, editsAtStart |-> 0, raced |-> FALSE,
     first |-> NoDone, fresh |-> NoResult]

EmptyMap == [h \in {} |-> NoResult]

\* Map.prototype.set
MapSet(map, key, value) == [h \in DOMAIN map \cup {key} |-> IF h = key THEN value ELSE map[h]]

NoSystem == [isValid |-> FALSE]
NoSource == [made |-> FALSE]
NoApp == [made |-> FALSE]
NoTopology == [isValid |-> FALSE, analysed |-> FALSE]

Init ==
    /\ circuit \in InitialCircuits
    /\ disposed = FALSE
    /\ analysisCache = EmptyMap
    /\ lastCircuitHash = "null"
    /\ calls = [k \in Callers |-> IdleCall]
    /\ microtasks = <<>>
    /\ clock = 0
    /\ cacheOrigin = EmptyMap
    /\ nEdits = 0
    /\ nCalls = 0
    /\ lastDone = NoDone
    /\ sys = NoSystem
    /\ sol = NoSystem
    /\ topo = NoTopology
    /\ selectedMethod = ""
    /\ voltageSource = NoSource
    /\ app = NoApp

\* a hit answered with the cached object itself
CacheHitUnmarked(cached) == cached

\* `{ ...this.analysisCache.get(circuitHash), fromCache: true }`
CacheHit(cached) == [cached EXCEPT !.fromCache = TRUE]

\* analyzeCircuit(arg) up to its first suspension: the fingerprint, the cache
\* lookup and the synchronous body of validateCircuit.  It returns at once on
\* an exception or a cache hit and otherwise queues its continuation.  A
\* caller starts its next invocation once the previous one has settled; callers
\* are interchangeable, so they make their first invocations in numerical order.
Start(caller, arg) ==
    LET c == CASE arg = "dangling" -> Dangling(circuit)
               [] arg = "detached" -> Detached(circuit)
               [] OTHER -> circuit
        call == [IdleCall EXCEPT !.arg = arg, !.editsAtStart = nEdits]
    IN  /\ calls[caller].pc # "awaiting"
        /\ \A other \in Callers : other < caller => calls[other].pc # "idle"
        /\ nCalls < MaxCalls
        /\ nCalls' = nCalls + 1
        /\ \E circuitHash \in {generateCircuitHash(c)} :
              IF arg \in {"null", "malformed"}
              THEN /\ calls' = [calls EXCEPT ![caller] =
                                   [call EXCEPT !.pc = "done", !.result = InternalError, !.threw = TRUE]]
                   /\ lastDone' = NoDone
                   /\ UNCHANGED microtasks
              ELSE IF circuitHash \in DOMAIN analysisCache
              THEN /\ calls' = [calls EXCEPT ![caller] =
                                   [call EXCEPT !.pc = "done", !.circuitHash = circuitHash,
                                                !.result = CacheHit(analysisCache[circuitHash]),
                                                !.hit = TRUE, !.first = lastDone,
                                                !.fresh = FreshAnalysis(c, clock)]]
                   /\ lastDone' = NoDone
                   /\ UNCHANGED microtasks
              ELSE /\ calls' = [calls EXCEPT ![caller] =
                                   [call EXCEPT !.pc = "awaiting", !.circuitHash = circuitHash,
                                                !.validation = validateCircuit(c, disposed)]]
                   /\ microtasks' = Append(microtasks, caller)
                   /\ UNCHANGED lastDone
        /\ UNCHANGED <<circuit, disposed, analysisCache, lastCircuitHash, clock, cacheOrigin,
                       nEdits, sys, sol, topo, selectedMethod, voltageSource, app>>

\* the continuation of analyzeCircuit after the await, run as the oldest
\* queued microtask: topology, method, matrices, solve, assembly (which
\* writes the component fields), physical check, cache store
Resume(caller) ==
    LET call == calls[caller]
        raced == calls[caller].editsAtStart # nEdits
    IN  /\ microtasks # <<>>
        /\ Head(microtasks) = caller
        /\ microtasks' = Tail(microtasks)
        /\ \E out \in {Continuation(circuit, call.validation, disposed, clock)} :
              /\ calls' = [calls EXCEPT ![caller] =
                              [call EXCEPT !.pc = "done", !.result = out.result, !.stages = out.stages,
                                           !.failed = out.failed, !.threw = out.threw,
                                           !.stored = out.store, !.raced = raced,
                                           !.wrote = (out.components # circuit.components)]]
              /\ circuit' = [circuit EXCEPT !.components = out.components]
              /\ IF out.store
                 THEN /\ analysisCache' = MapSet(analysisCache, call.circuitHash, out.result)
                      /\ lastCircuitHash' = call.circuitHash
                      /\ cacheOrigin' = MapSet(cacheOrigin, call.circuitHash, generateCircuitHash(circuit))
                 ELSE UNCHANGED <<analysisCache, lastCircuitHash, cacheOrigin>>
              /\ lastDone' = [live |-> out.store /\ ~raced /\ call.arg = "circuit", result |-> out.result]
        /\ UNCHANGED <<disposed, clock, nEdits, nCalls, sys, sol, topo, selectedMethod, voltageSource, app>>

\* what every edit of the circuit leaves alone, and the history it updates
Edited ==
    /\ nEdits < MaxEdits
    /\ nEdits' = nEdits + 1
    /\ lastDone' = NoDone
    /\ UNCHANGED <<disposed, analysisCache, lastCircuitHash, calls, microtasks, clock,
                   cacheOrigin, nCalls, sys, sol, topo, selectedMethod, voltageSource, app>>

\* the user types a number into the value field of component i
SetValue(i, v) ==
    /\ i \in 1..Len(circuit.components)
    /\ circuit.components[i].type # "ground"
    /\ circuit.components[i].valueIsText \/ circuit.components[i].value # v
    /\ circuit' = [circuit EXCEPT !.components[i].value = v,
                                  !.components[i].valueIsText = FALSE]
    /\ Edited

\* the value field of voltage source i is left holding a text
EditValueText(i) ==
    /\ i \in 1..Len(circuit.components)
    /\ circuit.components[i].type = "voltage"
    /\ ~circuit.components[i].valueIsText
    /\ circuit' = [circuit EXCEPT !.components[i].valueIsText = TRUE]
    /\ Edited

\* the displacement that drags x away from its place, or back to it
Drag(x) == IF x < MoveDistance THEN MoveDistance ELSE -MoveDistance

\* Component.moveTo: the part i and its connection points are dragged
MoveComponent(i) ==
    /\ i \in 1..Len(circuit.components)
    /\ circuit.components[i].type # "ground"
    /\ circuit' = [circuit EXCEPT !.components[i].pts =
                      [t \in 1..Len(@) |-> Shift(@[t], Drag(@[1].x))]]
    /\ Edited

\* the end point of wire w is dragged; its attachment is left as it was
MoveWireEnd(w) ==
    /\ w \in 1..Len(circuit.wires)
    /\ circuit' = [circuit EXCEPT !.wires[w].end = Shift(@, Drag(@.x))]
    /\ Edited

\* the internal resistance of source i is switched between 0 and 1 ohm
SetInternalResistance(i) ==
    /\ i \in 1..Len(circuit.components)
    /\ circuit.components[i].type \in {"voltage", "current"}
    /\ circuit' = [circuit EXCEPT !.components[i].internalResistance = 1 - @]
    /\ Edited

\* CircuitAnalyzer.clearCache
ClearCache ==
    /\ analysisCache # EmptyMap
    /\ analysisCache' = EmptyMap
    /\ cacheOrigin' = EmptyMap
    /\ lastCircuitHash' = "null"
    /\ lastDone' = NoDone
    /\ UNCHANGED <<circuit, disposed, calls, microtasks, clock, nEdits, nCalls, sys, sol, topo, selectedMethod, voltageSource, app>>

\* CircuitAnalyzer.dispose
Dispose ==
    /\ ~disposed
    /\ disposed' = TRUE
    /\ analysisCache' = EmptyMap
    /\ cacheOrigin' = EmptyMap
    /\ lastCircuitHash' = "null"
    /\ lastDone' = NoDone
    /\ UNCHANGED <<circuit, calls, microtasks, clock, nEdits, nCalls, sys, sol, topo, selectedMethod, voltageSource, app>>

\* time passes: the next `new Date()` reads a later instant
Tick ==
    /\ clock < MaxClock
    /\ clock' = clock + 1
    /\ UNCHANGED <<circuit, disposed, analysisCache, lastCircuitHash, calls, microtasks,
                   cacheOrigin, nEdits, nCalls, lastDone, sys, sol, topo, selectedMethod, voltageSource, app>>

Next ==
    \/ \E caller \in Callers, arg \in Args : Start(caller, arg)
    \/ \E caller \in Callers : Resume(caller)
    \/ \E i \in EditableParts, v \in EditValues : SetValue(i, v)
    \/ \E i \in EditableParts : EditValueText(i)
    \/ \E i \in EditableParts : MoveComponent(i)
    \/ \E w \in EditableWires : MoveWireEnd(w)
    \/ \E i \in EditableParts : SetInternalResistance(i)
    \/ ClearCache
    \/ Dispose
    \/ Tick

Spec == Init /\ [][Next]_vars

-----------------------------------------------------------------------------
(* EquationSolver.solve on the systems the matrix builder hands to it *)

MaxUnknowns == 2    \* the systems have 1..MaxUnknowns unknowns

Entries == { Num(k) : k \in -MaxEntry..MaxEntry }

\* `new Circuit()`
EmptyCircuit == [components |-> <<>>, wires |-> <<>>]

\* what buildSystemMatrices returns for the matrix A and right-hand side b
\* built by `method`: the n nodes of the index map come first, ground last
SystemOf(method, A, b) ==
    [isValid |-> TRUE, error |-> <<>>, method |-> method,
     systemMatrix |-> A,
     rightHandSide |-> b,
     nodeIndexMap |-> [k \in 1..Len(A) |-> k],
     branchIndexMap |-> [k \in 1..Len(A) |-> k],
     groundNodeId |-> Len(A) + 1,
     dimensions |-> CASE method = "series" ->
                            [rows |-> 1, cols |-> 1, variables |-> 1,
                             totalResistance |-> A[1][1], totalVoltage |-> b[1]]
                      [] method = "parallel" ->
                            [rows |-> Len(A), cols |-> Len(A), variables |-> Len(A),
                             sourceVoltage |-> b[1]]
                      [] OTHER -> [rows |-> Len(A), cols |-> Len(A), variables |-> Len(A)],
     conditioning |-> checkMatrixConditioning(A)]

\* nodal systems: any square matrix; series systems: <<<<R>>>>, <<V>>;
\* parallel systems: the diagonal of `impedance || 1`, the source voltage in
\* every row
Systems ==
    UNION { { SystemOf("nodal", A, b) : A \in [1..n -> [1..n -> Entries]], b \in [1..n -> Entries] } :
            n \in 1..MaxUnknowns }
    \cup { SystemOf("series", <<<<r>>>>, <<v>>) : r \in Entries, v \in Entries }
    \cup UNION { { SystemOf("parallel",
                            [i \in 1..n |-> [j \in 1..n |-> IF i = j THEN OrOne(d[i]) ELSE Zero]],
                            [i \in 1..n |-> v]) : d \in [1..n -> Entries], v \in Entries } :
                 n \in 1..MaxUnknowns }

InitSolve ==
    /\ circuit = EmptyCircuit
    /\ disposed = FALSE
    /\ analysisCache = EmptyMap
    /\ lastCircuitHash = "null"
    /\ calls = [k \in Callers |-> IdleCall]
    /\ microtasks = <<>>
    /\ clock = 0
    /\ cacheOrigin = EmptyMap
    /\ nEdits = 0
    /\ nCalls = 0
    /\ lastDone = NoDone
    /\ sys \in Systems
    /\ sol = NoSystem
    /\ topo = NoTopology
    /\ selectedMethod = ""
    /\ voltageSource = NoSource
    /\ app = NoApp

\* EquationSolver.solve(sys)
Solve ==
    /\ sol = NoSystem
    /\ sol' = solve(sys)
    /\ UNCHANGED <<circuit, disposed, analysisCache, lastCircuitHash, calls, microtasks,
                   clock, cacheOrigin, nEdits, nCalls, lastDone, sys, topo, selectedMethod, voltageSource, app>>

NextSolve == Solve

SpecSolve == InitSolve /\ [][NextSolve]_vars

-----------------------------------------------------------------------------
(* NodeAnalyzer.analyzeNodes and CircuitMatrixBuilder.buildSystemMatrices  *)
(* on small circuits drawn on the points PA, PB, PC                        *)

\* a part with its two terminals put at the points `ends`
Placed(part, ends) == [part EXCEPT !.pts = ends]

\* a source with an internal resistance of 1 ohm
WithInternalResistance(part) == [part EXCEPT !.internalResistance = 1]

\* one ground component at every point of `points`
GroundsAt(points) ==
    LET at == SortedSeq({ p.x + 2 * p.y : p \in points })
        PointOf(k) == CHOOSE p \in points : p.x + 2 * p.y = k
    IN  [i \in 1..Len(at) |-> Comp(<<"G1", "G2", "G3">>[i], "ground", 0, <<PointOf(at[i])>>)]

\* an ideal wire drawn from PA to PC, attached to no component
WireAcross == [id |-> "w1", start |-> PA, end |-> PC,
               startComponent |-> "null", endComponent |-> "null", resistance |-> 0]

\* a point within tolerance of PA that rounds to the next position bucket
NearPA == Pt(6, 0)

\* the resistances of the wire, in micro-ohms: ideal, exactly the ideal
\* epsilon, and 2 ohms
WireResistances == {0, IdealEpsilon, 2000000}

\* a source from PA to PB, a second part, an optional resistor, ground
\* components at any of the three points, and optionally the wire, drawn from PA or from NearPA
StageCircuits ==
    { [components |-> <<Placed(first, <<PA, PB>>), Placed(second, ends2)>> \o third \o GroundsAt(points),
       wires |-> wires] :
        first \in {V("V1", 5), I("I1", 2), WithInternalResistance(I("I1", 2))},
        second \in {R("R1", 2), V("V2", 3), I("I2", 1)},
        ends2 \in {<<PB, PC>>, <<PC, PB>>, <<PA, PB>>},
        third \in {<<>>, <<Placed(R("R2", 4), <<PC, PA>>)>>, <<Placed(R("R2", 4), <<PB, PA>>)>>,
                   <<Placed(Capacitor("C1", 1), <<PC, PA>>)>>},
        points \in SUBSET {PA, PB, PC},
        wires \in {<<>>} \cup { <<[WireAcross EXCEPT !.resistance = r, !.start = from]>> :
                                   r \in WireResistances, from \in {PA, NearPA} } }

PD == Pt(0, 60)
PE == Pt(120, 60)

\* a bridge: a source from PA to PB, resistors around the square PA PB PC PD,
\* a part across PB PD, two resistors from PE to PA and to PC, and at most
\* one ground component
BridgeCircuits ==
    { [components |-> <<Placed(source, <<PA, PB>>),
                        Placed(R("R1", 1), <<PB, PC>>),
                        Placed(R("R2", 2), <<PC, PD>>),
                        Placed(R("R3", 3), <<PD, PA>>),
                        Placed(across, <<PB, PD>>),
                        Placed(R("R4", 4), <<PE, PA>>),
                        Placed(R("R5", 5), <<PE, PC>>)>> \o ground,
       wires |-> <<>>] :
        source \in {V("V1", 5), I("I1", 2)},
        across \in {R("R6", 2), I("I2", 1)},
        ground \in {<<>>} \cup { <<Comp("G1", "ground", 0, <<p>>)>> : p \in {PA, PB, PC, PD, PE} } }

\* a chain: a source from PA to PB, a resistor on to PC and one on to PD,
\* left open or closed by a resistor from PD back to PA, and at most one
\* ground component
ChainCircuits ==
    { [components |-> <<Placed(source, <<PA, PB>>),
                        Placed(R("R1", 1), <<PB, PC>>),
                        Placed(R("R2", 2), ends)>> \o closing \o ground,
       wires |-> <<>>] :
        source \in {V("V1", 5), I("I1", 2)},
        ends \in {<<PC, PD>>, <<PD, PC>>},
        closing \in {<<>>, <<Placed(R("R3", 3), <<PD, PA>>)>>},
        ground \in {<<>>} \cup { <<Comp("G1", "ground", 0, <<p>>)>> : p \in {PA, PB, PC, PD} } }

\* two loops that meet at PA: a source from PA to PB, resistors from PB to
\* PC and from PC to PA, and resistors from PA to PD, PD to PE and PE back
\* to PA, with at most one ground component
TwoLoopCircuits ==
    { [components |-> <<Placed(source, <<PA, PB>>),
                        Placed(R("R1", 1), <<PB, PC>>),
                        Placed(R("R2", 2), <<PC, PA>>),
                        Placed(R("R3", 3), first),
                        Placed(R("R4", 1), <<PD, PE>>),
                        Placed(R("R5", 2), <<PE, PA>>)>> \o ground,
       wires |-> <<>>] :
        source \in {V("V1", 5), I("I1", 2)},
        first \in {<<PA, PD>>, <<PD, PA>>},
        ground \in {<<>>} \cup { <<Comp("G1", "ground", 0, <<p>>)>> : p \in {PA, PD} } }

\* the methods that build the system by nodal construction
NodalMethods == {"nodal", "nodal_modified", "ladder"}

InitBuild ==
    /\ circuit \in StageCircuits \cup BridgeCircuits \cup ChainCircuits \cup TwoLoopCircuits
    /\ disposed = FALSE
    /\ analysisCache = EmptyMap
    /\ lastCircuitHash = "null"
    /\ calls = [k \in Callers |-> IdleCall]
    /\ microtasks = <<>>
    /\ clock = 0
    /\ cacheOrigin = EmptyMap
    /\ nEdits = 0
    /\ nCalls = 0
    /\ lastDone = NoDone
    /\ sys = NoSystem
    /\ sol = NoSystem
    /\ topo = NoTopology
    /\ selectedMethod = ""
    /\ voltageSource = NoSource
    /\ app = NoApp

\* NodeAnalyzer.analyzeNodes(circuit)
AnalyzeNodes ==
    /\ topo = NoTopology
    /\ topo' = analyzeNodes(circuit)
    /\ UNCHANGED <<circuit, disposed, analysisCache, lastCircuitHash, calls, microtasks,
                   clock, cacheOrigin, nEdits, nCalls, lastDone, sys, sol, selectedMethod, voltageSource, app>>

\* CircuitMatrixBuilder.buildSystemMatrices(circuit, topo, m), called as
\* analyzeCircuit calls it: for a topology that analyzeNodes found valid
Build(m) ==
    /\ topo # NoTopology
    /\ topo.isValid
    /\ sys = NoSystem
    /\ selectedMethod' = m
    /\ sys' = buildSystemMatrices(circuit, topo, m)
    /\ UNCHANGED <<circuit, disposed, analysisCache, lastCircuitHash, calls, microtasks,
                   clock, cacheOrigin, nEdits, nCalls, lastDone, sol, topo, voltageSource, app>>

\* the methods Build is called with: the nodal ones and mesh analysis
BuildMethods == NodalMethods \cup {"mesh"}

NextBuild ==
    \/ AnalyzeNodes
    \/ \E m \in BuildMethods : Build(m)

SpecBuild == InitBuild /\ [][NextBuild]_vars

-----------------------------------------------------------------------------
(* CircuitAnalyzer.selectOptimalMethod on the summaries of a node analysis *)

MaxNodes == 4       \* the summaries have 1..MaxNodes nodes
MaxBranches == 4    \* and 0..MaxBranches branches,
MaxSources == 2     \* of which 0..MaxSources are sources of either kind

\* what selectOptimalMethod reads of a valid node analysis: the counts and
\* the three flags of the topology
TopologySummaries ==
    { [isValid |-> TRUE, analysed |-> TRUE,
       nodeCount |-> n, branchCount |-> b,
       voltageSourceCount |-> v, currentSourceCount |-> i,
       topology |-> [isSeriesCircuit |-> s, isParallelCircuit |-> p, isLadderCircuit |-> l]] :
        n \in 1..MaxNodes, b \in 0..MaxBranches,
        v \in 0..MaxSources, i \in 0..MaxSources, s \in BOOLEAN, p \in BOOLEAN, l \in BOOLEAN }

InitMethod ==
    /\ circuit = EmptyCircuit
    /\ disposed = FALSE
    /\ analysisCache = EmptyMap
    /\ lastCircuitHash = "null"
    /\ calls = [k \in Callers |-> IdleCall]
    /\ microtasks = <<>>
    /\ clock = 0
    /\ cacheOrigin = EmptyMap
    /\ nEdits = 0
    /\ nCalls = 0
    /\ lastDone = NoDone
    /\ sys = NoSystem
    /\ sol = NoSystem
    /\ topo \in { t \in TopologySummaries :
                      t.voltageSourceCount + t.currentSourceCount <= t.branchCount }
    /\ selectedMethod = ""
    /\ voltageSource = NoSource
    /\ app = NoApp

\* CircuitAnalyzer.selectOptimalMethod(topo)
SelectMethod ==
    /\ selectedMethod = ""
    /\ selectedMethod' = selectOptimalMethod(topo)
    /\ UNCHANGED <<circuit, disposed, analysisCache, lastCircuitHash, calls, microtasks,
                   clock, cacheOrigin, nEdits, nCalls, lastDone, sys, sol, topo, voltageSource, app>>

NextMethod == SelectMethod

SpecMethod == InitMethod /\ [][NextMethod]_vars

-----------------------------------------------------------------------------
(* EquationSolver.selectSolverMethod on the systems of the matrix builder *)

MaxSize == 11       \* the systems have 1..MaxSize unknowns
MaxBand == 2        \* diagonal and neighbour entries range over -MaxBand..MaxBand

\* the symmetric matrix of a chain of n nodes: d on the diagonal, o between
\* neighbouring nodes, 0 elsewhere
ChainMatrix(n, d, o) ==
    [i \in 1..n |-> [j \in 1..n |->
        IF i = j THEN Num(d) ELSE IF i - j \in {-1, 1} THEN Num(o) ELSE Zero]]

\* what buildSystemMatrices returns for the chains, built by node or by mesh
ChainSystems ==
    { SystemOf(m, ChainMatrix(n, d, o), [i \in 1..n |-> Num(1)]) :
        m \in {"nodal", "mesh"}, n \in 1..MaxSize,
        d \in -MaxBand..MaxBand, o \in -MaxBand..MaxBand }

InitSelect ==
    /\ circuit = EmptyCircuit
    /\ disposed = FALSE
    /\ analysisCache = EmptyMap
    /\ lastCircuitHash = "null"
    /\ calls = [k \in Callers |-> IdleCall]
    /\ microtasks = <<>>
    /\ clock = 0
    /\ cacheOrigin = EmptyMap
    /\ nEdits = 0
    /\ nCalls = 0
    /\ lastDone = NoDone
    /\ sys \in ChainSystems
    /\ sol = NoSystem
    /\ topo = NoTopology
    /\ selectedMethod = ""
    /\ voltageSource = NoSource
    /\ app = NoApp

\* EquationSolver.selectSolverMethod(sys)
SelectSolver ==
    /\ selectedMethod = ""
    /\ selectedMethod' = selectSolverMethod(sys)
    /\ UNCHANGED <<circuit, disposed, analysisCache, lastCircuitHash, calls, microtasks,
                   clock, cacheOrigin, nEdits, nCalls, lastDone, sys, sol, topo, voltageSource, app>>

NextSelect == SelectSolver

SpecSelect == InitSelect /\ [][NextSelect]_vars

-----------------------------------------------------------------------------
(* EquationSolver.jacobiMethod and gaussSeidelMethod on small systems *)

\* every square system of 1..MaxUnknowns unknowns over Entries
IterativeSystems ==
    UNION { { SystemOf("nodal", A, b) : A \in [1..n -> [1..n -> Entries]], b \in [1..n -> Entries] } :
            n \in 1..MaxUnknowns }

InitIterate ==
    /\ circuit = EmptyCircuit
    /\ disposed = FALSE
    /\ analysisCache = EmptyMap
    /\ lastCircuitHash = "null"
    /\ calls = [k \in Callers |-> IdleCall]
    /\ microtasks = <<>>
    /\ clock = 0
    /\ cacheOrigin = EmptyMap
    /\ nEdits = 0
    /\ nCalls = 0
    /\ lastDone = NoDone
    /\ sys \in IterativeSystems
    /\ sol = NoSystem
    /\ topo = NoTopology
    /\ selectedMethod = ""
    /\ voltageSource = NoSource
    /\ app = NoApp

\* EquationSolver.jacobiMethod(A, b)
Jacobi ==
    /\ sol = NoSystem
    /\ sol' = jacobiMethod(sys.systemMatrix, sys.rightHandSide)
    /\ selectedMethod' = "iterative_jacobi"
    /\ UNCHANGED <<circuit, disposed, analysisCache, lastCircuitHash, calls, microtasks,
                   clock, cacheOrigin, nEdits, nCalls, lastDone, sys, topo, voltageSource, app>>

\* EquationSolver.gaussSeidelMethod(A, b)
GaussSeidel ==
    /\ sol = NoSystem
    /\ sol' = gaussSeidelMethod(sys.systemMatrix, sys.rightHandSide)
    /\ selectedMethod' = "iterative_gauss_seidel"
    /\ UNCHANGED <<circuit, disposed, analysisCache, lastCircuitHash, calls, microtasks,
                   clock, cacheOrigin, nEdits, nCalls, lastDone, sys, topo, voltageSource, app>>

NextIterate == Jacobi \/ GaussSeidel

SpecIterate == InitIterate /\ [][NextIterate]_vars

-----------------------------------------------------------------------------
(* Properties of analyzeCircuit *)

\* the invocations that have returned
Done == { k \in Callers : calls[k].pc = "done" }

\* the invocations that ran the analysis (no cache hit, a circuit was passed)
Analysed == { k \in Done : calls[k].stages # <<>> }

\* C1 (as claimed): the stages run in the fixed order and as soon as any
\* stage reports failure the call returns isValid = false, runs no later
\* stage and stores nothing in the cache.
C1_AnyStageFailureInvalidates ==
    \A k \in { j \in Analysed : ~calls[j].raced } :
        /\ calls[k].stages = SubSeq(StageOrder, 1, Len(calls[k].stages))
        /\ calls[k].failed # "" =>
              /\ ~calls[k].result.isValid
              /\ calls[k].stages[Len(calls[k].stages)] = calls[k].failed
              /\ ~calls[k].stored

\* C1 (amended): the stages run in the fixed order validate, topology,
\* method, matrix, solve, assemble, check; a failure reported by validate,
\* topology, matrix or solve ends the call with isValid = false and that
\* stage's error, no later stage runs and nothing is cached; a failure
\* reported by the physical check only appends warnings: the result is
\* valid, every stage has run and the result is cached.
C1_StagesShortCircuit ==
    \A k \in Analysed :
        /\ calls[k].stages = SubSeq(StageOrder, 1, Len(calls[k].stages))
        /\ calls[k].failed \in {"validate", "topology", "matrix", "solve"} =>
              /\ ~calls[k].result.isValid
              /\ calls[k].result.error # <<>>
              /\ calls[k].failed = "validate" => calls[k].result.error = calls[k].validation.error
              /\ calls[k].stages[Len(calls[k].stages)] = calls[k].failed
              /\ ~calls[k].stored
        /\ calls[k].failed = "check" =>
              /\ calls[k].result.isValid
              /\ calls[k].result.warnings # <<>>
              /\ calls[k].stages = StageOrder
              /\ calls[k].stored
        /\ (calls[k].failed = "" /\ ~calls[k].threw) =>
              /\ calls[k].result.isValid
              /\ calls[k].stages = StageOrder
              /\ calls[k].stored

\* a call that the matrix stage ended, after three stages had passed
C1_Witness ==
    \E k \in Analysed : calls[k].failed = "matrix" /\ Len(calls[k].stages) = 4

\* C2: a call that ends with isValid = false leaves the voltage, current and
\* power of every component as they were before the call.
C2_InvalidCallWritesNothing ==
    \A k \in Done : ~calls[k].result.isValid => ~calls[k].wrote

\* C3: whatever is passed (a circuit, null, a malformed value, a circuit with
\* a wire attached to an unknown id, any of them after dispose) the call
\* returns an object whose isValid is a boolean: an exception raised on the
\* way is answered by the catch block, and a suspended call has its
\* continuation queued.
C3_AlwaysAnswers ==
    \A k \in Callers :
        /\ calls[k].pc = "awaiting" => k \in Range(microtasks)
        /\ calls[k].pc = "done" =>
              /\ "isValid" \in DOMAIN calls[k].result
              /\ calls[k].result.isValid \in BOOLEAN
              /\ calls[k].threw => ~calls[k].result.isValid

\* every kind of raising input has been answered: a dangling wire, and a
\* circuit analysed after dispose
C3_Witness ==
    /\ \E k \in Done : calls[k].threw /\ calls[k].arg = "dangling"
    /\ \E k \in Done : calls[k].threw /\ calls[k].arg = "circuit" /\ disposed

\* the second of two calls made in a row on an unmodified circuit whose first
\* call succeeded: a hit taken while the last completed call is still current
SecondInARow == { k \in Done : calls[k].hit /\ calls[k].first.live /\ calls[k].arg = "circuit" }

Comparable(r) == IF r.isValid THEN [r EXCEPT !.fromCache = FALSE, !.timestamp = 0] ELSE r

\* C5: whatever calls and edits came before, a result served from the cache
\* equals the result of a fresh analysis of the circuit as it is at the call.
C5_CacheMatchesFreshAnalysis ==
    \A k \in Done : calls[k].hit => Comparable(calls[k].result) = Comparable(calls[k].fresh)

\* C6: every cache entry was computed from a circuit that has the
\* fingerprint it is stored under (nothing takes effect between the
\* fingerprint and the store).
C6_StoredUnderOwnFingerprint ==
    \A h \in DOMAIN cacheOrigin : cacheOrigin[h] = h

\* C7: every warning the validate stage raised is in the warnings of the
\* result when the analysis succeeds.
C7_ValidationWarningsReported ==
    \A k \in { j \in Analysed : ~calls[j].raced } :
        calls[k].result.isValid =>
            \A i \in DOMAIN calls[k].validation.warnings :
                calls[k].validation.warnings[i] \in Range(calls[k].result.warnings)

\* the successful analyses by `method` that no edit interfered with
Solved(method) ==
    { k \in Analysed : /\ ~calls[k].raced
                       /\ calls[k].result.isValid
                       /\ calls[k].result.method = method }

\* C8: a series circuit whose sources sum to V and whose resistors sum to
\* R > 0 is reported with the current V/R in every branch, in every
\* component and as the total current.
C8_SeriesCurrent ==
    \A k \in Solved("series") :
        LET r == calls[k].result
            expected == RDiv(r.sourceVoltage, r.totalResistance)
        IN  RGt(r.totalResistance, Zero) =>
              /\ r.totalCurrent = RAbs(expected)
              /\ \A i \in DOMAIN r.branchCurrents : RAbs(r.branchCurrents[i].current) = RAbs(expected)
              /\ \A i \in DOMAIN r.componentValues : RAbs(r.componentValues[i].current) = RAbs(expected)

\* C9: a parallel circuit of one source V across resistors R_1..R_n is
\* reported with the current V/R_i under each resistor's own id, a total
\* current that is the sum of these, and the equivalent resistance
\* 1 / (1/R_1 + ... + 1/R_n).
C9_ParallelCurrents ==
    \A k \in Solved("parallel") :
        LET r == calls[k].result
            resistors == Filter(r.componentValues, LAMBDA v : ~v.resistance.isNull)
            Branch(i) == RDiv(r.sourceVoltage, resistors[i].resistance.num)
        IN  /\ \A i \in DOMAIN resistors : RAbs(resistors[i].current) = RAbs(Branch(i))
            /\ r.totalCurrent = RAbs(ReduceAdd([i \in DOMAIN resistors |-> Branch(i)], Zero))
            /\ r.totalResistance =
                  RDiv(Num(1), ReduceAdd([i \in DOMAIN resistors |->
                                             RDiv(Num(1), resistors[i].resistance.num)], Zero))

-----------------------------------------------------------------------------
(* Properties of EquationSolver.solve *)

\* C10: a system whose matrix has determinant zero is refused: solve returns
\* isValid = false, so no solution values (finite or not) are reported as
\* valid for it.
C10_SingularSystemRefused ==
    (sol # NoSystem /\ Det3(sys.systemMatrix) = Zero) => ~sol.isValid

\* the residual of the answer exceeds tolerance * 1000
ResidualExceeds ==
    /\ sol # NoSystem
    /\ "residualSquared" \in DOMAIN sol
    /\ ~BelowPow10(sol.residualSquared, 2 * (SolverToleranceExp - 3))

-----------------------------------------------------------------------------
(* Properties of the reported node voltages *)

\* C12: in a valid result the ground electrical node is reported with the
\* voltage 0, wherever it stands in the node list (checked on the result of
\* the last completed analysis while the circuit is still the analysed one).
C12_GroundReportedAtZero ==
    lastDone.live =>
        LET ground == GroundNodeId(analyzeNodes(circuit))
        IN  ground # 0 => lastDone.result.nodeVoltages[ground] = Zero

-----------------------------------------------------------------------------
(* Properties of the validation of the circuit structure *)

\* the invocations on a circuit with components no wire leads to
OnDetached == { k \in Done : calls[k].arg = "detached" /\ ~calls[k].threw }

\* C13: a circuit with a component that cannot be reached through wires is
\* rejected with isValid = false and an error message that names the number
\* of disconnected components.
C13_DisconnectedCountNamed ==
    \A k \in OnDetached :
        /\ ~calls[k].result.isValid
        /\ \E i \in DOMAIN calls[k].result.error :
              /\ calls[k].result.error[i][1] = "Circuito contiene componentes desconectados"
              /\ calls[k].result.error[i][2] # <<>>

\* C13, the part that holds: such a circuit is rejected by the validate
\* stage with the error "Circuito contiene componentes desconectados".
C13_DisconnectedRejected ==
    \A k \in OnDetached :
        /\ ~calls[k].result.isValid
        /\ calls[k].failed = "validate"
        /\ Msg("Circuito contiene componentes desconectados", <<>>) \in Range(calls[k].result.error)

-----------------------------------------------------------------------------
(* Properties of NodeAnalyzer.analyzeNodes *)

\* the electrical nodes of a node analysis that are marked as ground
GroundNodes(nodeAnalysis) ==
    { k \in 1..Len(nodeAnalysis.nodes) : nodeAnalysis.nodes[k].isGround }

\* C14: analyzeNodes returns a valid topology only when exactly one
\* electrical node is marked as ground.
C14_ExactlyOneGround ==
    (topo # NoTopology /\ topo.isValid) => Cardinality(GroundNodes(topo)) = 1

\* C14, the part that holds: a topology without a ground node is invalid.
C14_GroundRequired ==
    (topo # NoTopology /\ topo.isValid) => Cardinality(GroundNodes(topo)) >= 1

-----------------------------------------------------------------------------
(* Properties of CircuitAnalyzer.selectOptimalMethod *)

\* N = (nodeCount - 1) + 2 * voltageSourceCount
NodalCost(t) == (t.nodeCount - 1) + 2 * t.voltageSourceCount

\* M = (branchCount - nodeCount + 1) + 2 * currentSourceCount
MeshCost(t) == (t.branchCount - t.nodeCount + 1) + 2 * t.currentSourceCount

\* C15: series, else parallel, else ladder topologies get the method of
\* their name; otherwise a nodal method is chosen exactly when N <= M
\* (nodal_modified iff there is a voltage source) and a mesh method exactly
\* when N > M (mesh_modified iff there is a current source).
C15_MethodSelection ==
    selectedMethod # "" =>
        IF topo.topology.isSeriesCircuit THEN selectedMethod = "series"
        ELSE IF topo.topology.isParallelCircuit THEN selectedMethod = "parallel"
        ELSE IF topo.topology.isLadderCircuit THEN selectedMethod = "ladder"
        ELSE /\ selectedMethod \in {"nodal", "nodal_modified", "mesh", "mesh_modified"}
             /\ selectedMethod \in {"nodal", "nodal_modified"} <=> NodalCost(topo) <= MeshCost(topo)
             /\ selectedMethod \in {"mesh", "mesh_modified"} <=> NodalCost(topo) > MeshCost(topo)
             /\ selectedMethod = "nodal_modified" => topo.voltageSourceCount > 0
             /\ selectedMethod = "nodal" => topo.voltageSourceCount = 0
             /\ selectedMethod = "mesh_modified" => topo.currentSourceCount > 0
             /\ selectedMethod = "mesh" => topo.currentSourceCount = 0

\* a tie between the two costs that went to modified nodal analysis
C15_Witness ==
    /\ selectedMethod = "nodal_modified"
    /\ NodalCost(topo) = MeshCost(topo)
    /\ topo.currentSourceCount > 0

-----------------------------------------------------------------------------
(* Properties of CircuitMatrixBuilder.buildNodalMatrices *)

\* the voltage-source branches of a node analysis, in branch order
VoltageSourceBranches(nodeAnalysis) ==
    Filter(nodeAnalysis.branches, LAMBDA b : b.type = "voltage")

\* a system built by modified nodal analysis over k >= 1 voltage sources
BuiltWithVoltageSources ==
    /\ sys # NoSystem
    /\ sys.isValid
    /\ selectedMethod \in {"nodal_modified", "ladder"}
    /\ Len(VoltageSourceBranches(topo)) >= 1

\* C16: with n non-ground nodes and k >= 1 voltage-source branches, the
\* system of 'nodal_modified' and 'ladder' is square of size n + k and its
\* right-hand side has n + k entries.
C16_ExpandedSystemSquare ==
    BuiltWithVoltageSources =>
        LET size == Len(sys.nodeIndexMap) + Len(VoltageSourceBranches(topo))
        IN  /\ Len(sys.systemMatrix) = size
            /\ \A i \in 1..Len(sys.systemMatrix) : Len(sys.systemMatrix[i]) = size
            /\ Len(sys.rightHandSide) = size


\* a system built by one of the nodal methods
BuiltNodal ==
    /\ sys # NoSystem
    /\ sys.isValid
    /\ selectedMethod \in NodalMethods

\* what the current sources of the branch list inject into row r: -I for
\* every source that starts at the node of row r, +I for every one that ends there
CurrentInjection(nodeAnalysis, c, nodeIndexMap, r) ==
    LET sources == Filter(nodeAnalysis.branches, LAMBDA b : b.type = "current")
        value(k) == NumericValue(c.components[sources[k].component])
        leaving(k) == IF RowOf(nodeIndexMap, sources[k].startNodeId) = r
                      THEN RNeg(value(k)) ELSE Zero
        entering(k) == IF RowOf(nodeIndexMap, sources[k].endNodeId) = r
                       THEN value(k) ELSE Zero
    IN  ReduceAdd([k \in 1..Len(sources) |-> RAdd(leaving(k), entering(k))], Zero)

\* C17: in nodal construction the right-hand-side entry of every non-ground
\* node is the sum of -I over the current sources starting there and +I over
\* those ending there, whatever the internal resistance of the sources.
C17_CurrentSourcesInject ==
    BuiltNodal =>
        \A r \in 1..Len(sys.nodeIndexMap) :
            sys.rightHandSide[r] = CurrentInjection(topo, circuit, sys.nodeIndexMap, r)

\* the same, for the current sources with a non-zero internal resistance only
C17_ResistiveCurrentSourcesInject ==
    (BuiltNodal /\ \A k \in 1..Len(circuit.components) :
                      circuit.components[k].type = "current"
                          => circuit.components[k].internalResistance > 0) =>
        \A r \in 1..Len(sys.nodeIndexMap) :
            sys.rightHandSide[r] = CurrentInjection(topo, circuit, sys.nodeIndexMap, r)


\* the sum of the admittances of the branches that pass Test
SumAdmittance(branches, Test(_)) ==
    LET chosen == Filter(branches, Test)
    IN  ReduceAdd([k \in 1..Len(chosen) |-> calculateAdmittance(chosen[k].impedance)], Zero)

\* the rows of the two ends of a branch (0: the end is the ground node)
EndRows(branch) ==
    {RowOf(sys.nodeIndexMap, branch.startNodeId), RowOf(sys.nodeIndexMap, branch.endNodeId)}

ConductanceSymmetric ==
    \A i, j \in 1..Len(sys.systemMatrix) : sys.systemMatrix[i][j] = sys.systemMatrix[j][i]

\* C18 as stated: G is symmetric, G[i][i] is the sum of the admittances of
\* the finite-impedance branches incident to node i, and G[i][j] is minus
\* the sum over the finite-impedance branches between i and j.
C18_ConductanceSums ==
    BuiltNodal =>
        /\ ConductanceSymmetric
        /\ \A i, j \in 1..Len(sys.systemMatrix) :
              sys.systemMatrix[i][j] =
                  IF i = j
                  THEN SumAdmittance(topo.branches,
                           LAMBDA b : IsFinite(b.impedance) /\ i \in EndRows(b))
                  ELSE RNeg(SumAdmittance(topo.branches,
                           LAMBDA b : IsFinite(b.impedance) /\ EndRows(b) = {i, j}))

\* a branch the nodal construction stamps: its admittance is finite, which
\* leaves out zero impedance (infinite admittance) and infinite impedance
Stamped(branch) == IsFinite(calculateAdmittance(branch.impedance))

\* C18: G is symmetric, G[i][i] is the sum of the admittances of the
\* branches of finite admittance incident to node i, and G[i][j] is minus
\* the sum over the branches of finite admittance between i and j;
\* branches of zero impedance and of infinite impedance contribute nothing.
C18_StampedConductanceSums ==
    BuiltNodal =>
        /\ ConductanceSymmetric
        /\ \A i, j \in 1..Len(sys.systemMatrix) :
              sys.systemMatrix[i][j] =
                  IF i = j
                  THEN SumAdmittance(topo.branches,
                           LAMBDA b : Stamped(b) /\ i \in EndRows(b))
                  ELSE RNeg(SumAdmittance(topo.branches,
                           LAMBDA b : Stamped(b) /\ EndRows(b) = {i, j}))

\* a 2 x 2 conductance matrix with a stamped branch between its two nodes
\* and another from a node to ground, built over a branch list that also
\* holds a branch the construction leaves out
C18_Witness ==
    /\ BuiltNodal
    /\ Len(sys.systemMatrix) = 2
    /\ sys.systemMatrix[1][2] # Zero
    /\ sys.systemMatrix[1][1] # sys.systemMatrix[2][2]
    /\ \E k \in 1..Len(topo.branches) : ~Stamped(topo.branches[k])

-----------------------------------------------------------------------------
(* Properties of EquationSolver.selectSolverMethod *)

\* the k-th leading principal minor of a matrix with zeros outside the
\* diagonal and its two neighbours
RECURSIVE LeadingMinor(_, _)
LeadingMinor(A, k) ==
    IF k = 0 THEN Num(1)
    ELSE IF k = 1 THEN A[1][1]
    ELSE RSub(RMul(A[k][k], LeadingMinor(A, k - 1)),
              RMul(RMul(A[k][k - 1], A[k - 1][k]), LeadingMinor(A, k - 2)))

\* Sylvester's criterion on a symmetric matrix
PositiveDefinite(A) == \A k \in 1..Len(A) : RGt(LeadingMinor(A, k), Zero)

\* C19: a system of more than 3 unknowns whose tag is neither 'series' nor
\* 'parallel' and whose matrix is symmetric and positive-definite is given
\* to Cholesky decomposition.
C19_CholeskyForPositiveDefinite ==
    (/\ selectedMethod # ""
     /\ sys.method \notin {"series", "parallel"}
     /\ Len(sys.systemMatrix) > 3
     /\ checkSymmetry(sys.systemMatrix)
     /\ PositiveDefinite(sys.systemMatrix)) => selectedMethod = "cholesky"


\* |determinant| below the builder's tolerance, on the builder's determinant
NearSingular(matrices) ==
    BelowPow10(RAbs(matrices.conditioning.determinant), BuilderToleranceExp)

\* the system is left to the rules after the analytical, Cramer and Cholesky ones
PastCholesky ==
    /\ selectedMethod # ""
    /\ selectedMethod \notin {"series_simple", "parallel_simple", "cramer", "cholesky"}

\* C20: past the analytical, Cramer and Cholesky rules, a matrix that is not
\* near-singular gets Gaussian elimination when n <= 10 and LU decomposition
\* when n > 10; Gauss-Seidel is chosen only for near-singular, diagonally
\* dominant matrices; Jacobi is never chosen.
C20_DirectUnlessNearSingular ==
    /\ PastCholesky /\ ~NearSingular(sys) =>
          selectedMethod = IF Len(sys.systemMatrix) <= 10
                           THEN "direct_elimination" ELSE "lu_decomposition"
    /\ selectedMethod = "iterative_gauss_seidel" =>
          NearSingular(sys) /\ sys.conditioning.isDiagonallyDominant
    /\ selectedMethod # "iterative_jacobi"

\* the same, with the first rule for the diagonally dominant matrices only
C20_DirectWhenDominant ==
    /\ PastCholesky /\ ~NearSingular(sys) /\ sys.conditioning.isDiagonallyDominant =>
          selectedMethod = IF Len(sys.systemMatrix) <= 10
                           THEN "direct_elimination" ELSE "lu_decomposition"
    /\ PastCholesky /\ ~sys.conditioning.isDiagonallyDominant =>
          selectedMethod = "direct_elimination"
    /\ selectedMethod = "iterative_gauss_seidel" <=>
          PastCholesky /\ NearSingular(sys) /\ sys.conditioning.isDiagonallyDominant
    /\ selectedMethod # "iterative_jacobi"

-----------------------------------------------------------------------------
(* Properties of the iterative methods *)

Iterated == sol # NoSystem /\ "convergence" \in DOMAIN sol

\* C21: jacobiMethod and gaussSeidelMethod perform at most maxIterations
\* sweeps; they answer isValid = true exactly when the residual of the last
\* sweep performed fell below tolerance, and otherwise isValid = false with
\* the non-convergence error after maxIterations sweeps; in both outcomes
\* convergence.residuals has one entry per sweep and convergence.iterations
\* is that count.
C21_IterationBounded ==
    Iterated =>
        LET residuals == sol.convergence.residuals
            sweeps == sol.convergence.iterations
            below(k) == BelowPow10(residuals[k], 2 * SolverToleranceExp)
        IN  /\ sweeps <= maxIterations
            /\ Len(residuals) = sweeps
            /\ \A k \in 1..(sweeps - 1) : ~below(k)
            /\ sol.isValid => sweeps >= 1 /\ below(sweeps) /\ sol.error = ""
            /\ ~sol.isValid => /\ sweeps = maxIterations
                               /\ ~below(sweeps)
                               /\ sol.error \in {"Error en método Jacobi: Jacobi no convergió",
                                                 "Error en método Gauss-Seidel: Gauss-Seidel no convergió"}
            /\ residuals[sweeps] = ResidualSquared(sys.systemMatrix, sys.rightHandSide, sol.values)

\* a method that gave up after maxIterations sweeps on finite approximations
C21_Witness ==
    /\ Iterated
    /\ ~sol.isValid
    /\ sol.convergence.iterations = maxIterations
    /\ Len(sol.convergence.residuals) = maxIterations
    /\ \A i \in 1..Len(sol.values) : IsFinite(sol.values[i])

-----------------------------------------------------------------------------
(* Properties of NodeAnalyzer.identifyBranches and createElectricalNodes *)

\* the electrical node that contains the physical node at position p, 0 when
\* there is none
ContainingNode(nodes, c, p) ==
    FindIndex(nodes, LAMBDA n : findNodeAtPosition(identifyPhysicalNodes(c), p.x, p.y)
                                    \in Range(n.physicalNodes))

\* the branches of component i / of wire i of the circuit
BranchesOfComponent(i) == Filter(topo.branches, LAMBDA b : b.component = i)
BranchesOfWire(i) == Filter(topo.branches, LAMBDA b : b.wireId = circuit.wires[i].id)

\* C22: every non-ground component with two terminals and every wire whose
\* resistance exceeds the ideal epsilon has exactly one branch, from the
\* electrical node containing its first terminal to the one containing its
\* second.
C22_EveryElementHasBranch ==
    topo # NoTopology =>
        /\ \A i \in 1..Len(circuit.components) :
              (circuit.components[i].type # "ground" /\ Len(circuit.components[i].pts) >= 2) =>
                  /\ Len(BranchesOfComponent(i)) = 1
                  /\ BranchesOfComponent(i)[1].startNodeId =
                        ContainingNode(topo.nodes, circuit, circuit.components[i].pts[1])
                  /\ BranchesOfComponent(i)[1].endNodeId =
                        ContainingNode(topo.nodes, circuit, circuit.components[i].pts[2])
        /\ \A i \in 1..Len(circuit.wires) :
              circuit.wires[i].resistance > IdealEpsilon =>
                  /\ Len(BranchesOfWire(i)) = 1
                  /\ BranchesOfWire(i)[1].startNodeId =
                        ContainingNode(topo.nodes, circuit, circuit.wires[i].start)
                  /\ BranchesOfWire(i)[1].endNodeId =
                        ContainingNode(topo.nodes, circuit, circuit.wires[i].end)

\* the same for the circuits without an ideal wire
C22_BranchesWithoutIdealWires ==
    (\A i \in 1..Len(circuit.wires) : circuit.wires[i].resistance >= IdealEpsilon) =>
        C22_EveryElementHasBranch


\* the physical node whose position bucket contains p, 0 when there is none
BucketNode(physicalNodes, p) ==
    FindIndex(physicalNodes, LAMBDA n : n.key = generateNodeKey(p.x, p.y))

\* the pairs of physical nodes joined by the ideal wires, each wire joining
\* the nodes whose buckets contain its endpoints
BucketLinks(physicalNodes, c) ==
    { <<BucketNode(physicalNodes, c.wires[i].start), BucketNode(physicalNodes, c.wires[i].end)>> :
        i \in { j \in 1..Len(c.wires) : c.wires[j].resistance < IdealEpsilon } }

\* the electrical node of physical node i
NodeOfPhysical(nodes, i) == FindIndex(nodes, LAMBDA n : i \in Range(n.physicalNodes))

\* every physical node lies in exactly one electrical node, and an
\* electrical node is ground exactly when one of its physical nodes hosted
\* a ground component
PartitionWithGround(physicalNodes) ==
    /\ \A i \in 1..Len(physicalNodes) :
          Cardinality({ k \in 1..Len(topo.nodes) : i \in Range(topo.nodes[k].physicalNodes) }) = 1
    /\ \A k \in 1..Len(topo.nodes) :
          /\ topo.nodes[k].physicalNodes # <<>>
          /\ topo.nodes[k].isGround <=>
                \E i \in Range(topo.nodes[k].physicalNodes) : physicalNodes[i].isGround

\* C23: two physical nodes share an electrical node exactly when a chain of
\* ideal wires links them, each wire joining the physical nodes whose
\* position buckets contain its endpoints; the ground mark of an electrical
\* node is that of its physical nodes.
C23_NodesMergedByIdealWires ==
    topo # NoTopology =>
        LET physicalNodes == identifyPhysicalNodes(circuit)
            links == BucketLinks(physicalNodes, circuit)
        IN  /\ PartitionWithGround(physicalNodes)
            /\ \A i, j \in 1..Len(physicalNodes) :
                  NodeOfPhysical(topo.nodes, i) = NodeOfPhysical(topo.nodes, j)
                      <=> j \in UnionFindClass(links, i)

\* the same, each wire joining the first physical nodes within tolerance of
\* its endpoints
C23_NodesMergedByNearestNodes ==
    topo # NoTopology =>
        LET physicalNodes == identifyPhysicalNodes(circuit)
            links == IdealLinks(physicalNodes, circuit)
        IN  /\ PartitionWithGround(physicalNodes)
            /\ \A i, j \in 1..Len(physicalNodes) :
                  NodeOfPhysical(topo.nodes, i) = NodeOfPhysical(topo.nodes, j)
                      <=> j \in UnionFindClass(links, i)

-----------------------------------------------------------------------------
(* Properties of NodeAnalyzer.analyzeTopology *)

\* the number of nodes with exactly d connections
NodesOfDegree(nodes, d) ==
    Cardinality({ k \in 1..Len(nodes) : Cardinality(nodes[k].connections) = d })

\* 5 electrical nodes with connection counts {3,3,3,3,2}, and neither the
\* series nor the parallel pattern
BridgePattern ==
    /\ topo # NoTopology
    /\ Len(topo.nodes) = 5
    /\ NodesOfDegree(topo.nodes, 3) = 4
    /\ NodesOfDegree(topo.nodes, 2) = 1
    /\ ~topo.topology.isSeriesCircuit
    /\ ~topo.topology.isParallelCircuit

\* C24: a circuit of the bridge pattern is classified as a bridge circuit,
\* description 'puente'.
C24_BridgeClassified ==
    BridgePattern => topo.topology.isBridgeCircuit /\ topo.topology.description = "puente"

\* the same circuits are flagged as bridges and described as ladders
C24_BridgeDescribedAsLadder ==
    BridgePattern => /\ topo.topology.isBridgeCircuit
                     /\ topo.topology.isLadderCircuit
                     /\ topo.topology.description = "escalera"


\* the node a walk over the branches mesh[k..] ends on when it stands on
\* `current`, 0 when a branch of the walk does not touch the node reached
RECURSIVE WalkEnd(_, _, _, _)
WalkEnd(branches, mesh, k, current) ==
    IF k > Len(mesh) THEN current
    ELSE LET b == BranchById(branches, mesh[k])
         IN  IF b.startNodeId = current THEN WalkEnd(branches, mesh, k + 1, b.endNodeId)
             ELSE IF b.endNodeId = current THEN WalkEnd(branches, mesh, k + 1, b.startNodeId)
             ELSE 0

\* the walk over the branches of a mesh, from the start node of the first
\* branch, is connected / returns to that node
Connected(branches, mesh) ==
    WalkEnd(branches, mesh, 1, BranchById(branches, mesh[1]).startNodeId) # 0

Closed(branches, mesh) ==
    WalkEnd(branches, mesh, 1, BranchById(branches, mesh[1]).startNodeId)
        = BranchById(branches, mesh[1]).startNodeId

\* C25: every recorded mesh is a closed walk of more than two branches.
C25_MeshesAreClosedWalks ==
    topo # NoTopology =>
        \A m \in 1..Len(topo.topology.meshes) :
            /\ Len(topo.topology.meshes[m]) > 2
            /\ Closed(topo.branches, topo.topology.meshes[m])

\* every recorded mesh is a connected walk of more than two branches
C25_MeshesAreWalks ==
    topo # NoTopology =>
        \A m \in 1..Len(topo.topology.meshes) :
            /\ Len(topo.topology.meshes[m]) > 2
            /\ Connected(topo.branches, topo.topology.meshes[m])


\* wire i joins two distinct physical nodes
JoinsTwoNodes(physicalNodes, i) ==
    /\ BucketNode(physicalNodes, circuit.wires[i].start) # 0
    /\ BucketNode(physicalNodes, circuit.wires[i].end) # 0
    /\ BucketNode(physicalNodes, circuit.wires[i].start) # BucketNode(physicalNodes, circuit.wires[i].end)

\* the physical nodes at the two ends of wire i lie in one electrical node
WireMerged(physicalNodes, i) ==
    NodeOfPhysical(topo.nodes, BucketNode(physicalNodes, circuit.wires[i].start))
        = NodeOfPhysical(topo.nodes, BucketNode(physicalNodes, circuit.wires[i].end))

\* wire i is a branch between the electrical nodes of its two ends
WireIsBranch(physicalNodes, i) ==
    /\ Len(BranchesOfWire(i)) = 1
    /\ BranchesOfWire(i)[1].startNodeId =
          NodeOfPhysical(topo.nodes, BucketNode(physicalNodes, circuit.wires[i].start))
    /\ BranchesOfWire(i)[1].endNodeId =
          NodeOfPhysical(topo.nodes, BucketNode(physicalNodes, circuit.wires[i].end))

\* wire i links two electrical nodes in the connection graph
WireLinksNodes(i) ==
    LET s == findElectricalNodeAtPosition(topo.nodes, circuit.wires[i].start.x, circuit.wires[i].start.y)
        e == findElectricalNodeAtPosition(topo.nodes, circuit.wires[i].end.x, circuit.wires[i].end.y)
    IN  s # 0 /\ e # 0 /\ s # e /\ e \in topo.nodes[s].connections

\* C27: a wire joining two distinct physical nodes is either merged (its end
\* nodes are one electrical node) or a branch between its end nodes, never
\* both and never neither, whatever its resistance; no wire links two
\* electrical nodes in the connection graph without being a branch.
C27_WireMergedOrBranch ==
    topo # NoTopology =>
        \A i \in 1..Len(circuit.wires) :
            JoinsTwoNodes(identifyPhysicalNodes(circuit), i) =>
                /\ WireMerged(identifyPhysicalNodes(circuit), i)
                      # WireIsBranch(identifyPhysicalNodes(circuit), i)
                /\ WireLinksNodes(i) => Len(BranchesOfWire(i)) = 1

\* the same for the wires whose resistance is not exactly the ideal epsilon
\* and whose ends are the stored positions of their physical nodes
C27_OffEpsilonWires ==
    (\A i \in 1..Len(circuit.wires) :
        circuit.wires[i].resistance # IdealEpsilon /\ circuit.wires[i].start = PA) =>
        C27_WireMergedOrBranch

\* a wire of exactly the ideal epsilon, drawn between stored positions, is
\* handled as the claim says
C27_EpsilonWires ==
    (\A i \in 1..Len(circuit.wires) :
        circuit.wires[i].resistance = IdealEpsilon /\ circuit.wires[i].start = PA) =>
        C27_WireMergedOrBranch


-----------------------------------------------------------------------------
(* Properties of NodeAnalyzer.findMeshes and of the mesh impedance matrix *)

\* a system built by mesh analysis
BuiltMesh ==
    /\ sys # NoSystem
    /\ sys.isValid
    /\ selectedMethod = "mesh"

\* the meshes that hold branch id
MeshesOf(meshes, id) == { m \in 1..Len(meshes) : id \in Range(meshes[m]) }

\* C28: findMeshes ends with walks no longer than the branch list, no branch
\* occurs twice in one mesh nor in two meshes, and so the mesh impedance
\* matrix built from these meshes is zero off the diagonal.
C28_MeshesShareNoBranch ==
    /\ topo # NoTopology =>
          /\ \A m \in 1..Len(topo.topology.meshes) :
                /\ Len(topo.topology.meshes[m]) <= Len(topo.branches)
                /\ Cardinality(Range(topo.topology.meshes[m])) = Len(topo.topology.meshes[m])
          /\ \A k \in 1..Len(topo.branches) :
                Cardinality(MeshesOf(topo.topology.meshes, topo.branches[k].id)) <= 1
    /\ BuiltMesh =>
          /\ Len(sys.systemMatrix) = Len(topo.topology.meshes)
          /\ \A i, j \in 1..Len(sys.systemMatrix) :
                i # j => sys.systemMatrix[i][j] = Zero

\* a mesh system of two meshes or more, with a non-zero diagonal
C28_Witness ==
    /\ BuiltMesh
    /\ Len(sys.systemMatrix) >= 2
    /\ \A i \in 1..Len(sys.systemMatrix) : sys.systemMatrix[i][i] # Zero


-----------------------------------------------------------------------------
(* VoltageSource: the output voltage of a DC source *)

\* what the constructor is given for value, internalResistance and
\* compliance; 0 is read by `||` as an option that was not given
SourceValues == {-5, 0, 5, 12}
SourceResistances == {0, 1, 2}
SourceCompliances == {0, 3, 10}
\* the currents setOutputCurrent is called with
SourceCurrents == {-2, 0, 2}

MathMax(a, b) == IF RLt(a, b) THEN b ELSE a
MathMin(a, b) == IF RLt(b, a) THEN b ELSE a

\* new VoltageSource(x, y, { value, internalResistance, compliance }) with
\* the default source type 'dc'; `returned` is history: what the last call
\* of getOutputVoltage returned, <<>> when the object changed since
VoltageSource(value, internalResistance, compliance) ==
    LET Made(v) ==
            [made |-> TRUE, sourceType |-> "dc", value |-> Num(v),
             internalResistance |-> Num(internalResistance),
             maxCurrent |-> Infinity, maxPower |-> Infinity,
             compliance |-> IF compliance = 0 THEN RMul(Num(v), Rat(11, 10)) ELSE Num(compliance),
             isEnabled |-> TRUE, outputVoltage |-> Num(v), outputCurrent |-> Zero,
             power |-> Zero, returned |-> <<>>]
    IN  Made(IF value = 0 THEN 12 ELSE value)

\* the value VoltageSource.getOutputVoltage returns for a DC source
getOutputVoltage(s) ==
    LET Limited(voltage) == MathMax(RNeg(s.compliance), MathMin(s.compliance, voltage))
    IN  IF ~s.isEnabled THEN Zero
        ELSE IF RGt(s.internalResistance, Zero) /\ s.outputCurrent # Zero
        THEN Limited(RSub(s.value, RMul(s.outputCurrent, s.internalResistance)))
        ELSE Limited(s.value)

\* VoltageSource.setOutputCurrent(current)
setOutputCurrent(s, current) ==
    LET Loaded(power) ==
            [s EXCEPT !.outputCurrent = current, !.power = power,
                      !.isEnabled = /\ s.isEnabled
                                    /\ ~RGt(RAbs(current), s.maxCurrent)
                                    /\ ~RGt(power, s.maxPower),
                      !.returned = <<>>]
    IN  Loaded(RAbs(RMul(s.outputVoltage, current)))

\* VoltageSource.enable(state)
enable(s, state) ==
    IF state THEN [s EXCEPT !.isEnabled = TRUE, !.returned = <<>>]
    ELSE [s EXCEPT !.isEnabled = FALSE, !.outputVoltage = Zero, !.outputCurrent = Zero,
                   !.power = Zero, !.returned = <<>>]

InitSource ==
    /\ circuit = EmptyCircuit
    /\ disposed = FALSE
    /\ analysisCache = EmptyMap
    /\ lastCircuitHash = "null"
    /\ calls = [k \in Callers |-> IdleCall]
    /\ microtasks = <<>>
    /\ clock = 0
    /\ cacheOrigin = EmptyMap
    /\ nEdits = 0
    /\ nCalls = 0
    /\ lastDone = NoDone
    /\ sys = NoSystem
    /\ sol = NoSystem
    /\ topo = NoTopology
    /\ selectedMethod = ""
    /\ voltageSource \in { VoltageSource(v, r, c) :
                             v \in SourceValues, r \in SourceResistances, c \in SourceCompliances }
    /\ app = NoApp

\* what the operations of the source leave alone
SourceOnly ==
    UNCHANGED <<circuit, disposed, analysisCache, lastCircuitHash, calls, microtasks,
                clock, cacheOrigin, nEdits, nCalls, lastDone, sys, sol, topo, selectedMethod, app>>

GetOutputVoltage ==
    /\ voltageSource' =
          IF voltageSource.isEnabled
          THEN [voltageSource EXCEPT !.outputVoltage = getOutputVoltage(voltageSource),
                                     !.returned = <<getOutputVoltage(voltageSource)>>]
          ELSE [voltageSource EXCEPT !.returned = <<getOutputVoltage(voltageSource)>>]
    /\ SourceOnly

SetOutputCurrent(current) ==
    /\ voltageSource' = setOutputCurrent(voltageSource, Num(current))
    /\ SourceOnly

Enable(state) ==
    /\ voltageSource' = enable(voltageSource, state)
    /\ SourceOnly

NextSource ==
    \/ GetOutputVoltage
    \/ \E current \in SourceCurrents : SetOutputCurrent(current)
    \/ \E state \in BOOLEAN : Enable(state)

SpecSource == InitSource /\ [][NextSource]_vars

\* a source that has just answered getOutputVoltage while enabled
Answered == voltageSource.made /\ voltageSource.isEnabled /\ voltageSource.returned # <<>>

\* V - I*R
Unclamped(s) == RSub(s.value, RMul(s.outputCurrent, s.internalResistance))

\* x limited to the magnitude of the compliance, keeping its sign
WithinCompliance(s, x) ==
    IF RLe(RAbs(x), RAbs(s.compliance)) THEN x
    ELSE IF RLt(x, Zero) THEN RNeg(RAbs(s.compliance)) ELSE RAbs(s.compliance)

\* C26: an enabled DC source of nominal value V (of either sign), internal
\* resistance R and output current I answers V - I*R when that lies within
\* the compliance magnitude and otherwise the compliance bound of the same
\* sign; with I = 0 and the default compliance it answers V.
C26_OutputWithinCompliance ==
    Answered =>
        voltageSource.returned[1] = WithinCompliance(voltageSource, Unclamped(voltageSource))

\* the same for the sources of positive compliance
C26_PositiveComplianceOutput ==
    (Answered /\ RGt(voltageSource.compliance, Zero)) =>
        voltageSource.returned[1] = WithinCompliance(voltageSource, Unclamped(voltageSource))


-----------------------------------------------------------------------------
(* CircuitSimulatorApp: the undo history *)

maxStates == 50      \* CircuitSimulatorApp.history.maxStates
MaxShifts == 2       \* saves that push the oldest state out, per behaviour

\* the app as its constructor leaves the fields, before init(): an empty
\* history and an empty document.  A document (the circuit and its JSON) is
\* reduced to the number of its elements.  History fields: last is the
\* operation that ran last, cut whether the last saveState dropped states
\* after the current one, shifted how many saves pushed the oldest state out.
NewApp ==
    [made |-> TRUE,
     history |-> [states |-> <<>>, currentIndex |-> -1, maxStates |-> maxStates],
     document |-> 0, last |-> "new", cut |-> FALSE, shifted |-> 0]

\* saveState without the removal of the states after the current one
saveStateKeepingFuture(a) ==
    LET Limit(h) ==
            IF Len(h.states) > h.maxStates
            THEN [a EXCEPT !.history = [h EXCEPT !.states = Tail(@), !.currentIndex = @ - 1],
                           !.last = "saveState", !.cut = FALSE, !.shifted = @ + 1]
            ELSE [a EXCEPT !.history = h, !.last = "saveState", !.cut = FALSE]
    IN  Limit([a.history EXCEPT !.states = Append(@, a.document), !.currentIndex = @ + 1])

\* CircuitSimulatorApp.saveState; indices are those of the code, from 0
saveState(a) ==
    LET cut == a.history.currentIndex < Len(a.history.states) - 1
        Limit(h) ==
            IF Len(h.states) > h.maxStates
            THEN [a EXCEPT !.history = [h EXCEPT !.states = Tail(@), !.currentIndex = @ - 1],
                           !.last = "saveState", !.cut = cut, !.shifted = @ + 1]
            ELSE [a EXCEPT !.history = h, !.last = "saveState", !.cut = cut]
        Push(states) ==
            Limit([a.history EXCEPT !.states = Append(states, a.document), !.currentIndex = @ + 1])
    IN  IF cut THEN Push(SubSeq(a.history.states, 1, a.history.currentIndex + 1))
        ELSE Push(a.history.states)

\* CircuitSimulatorApp.undo
undo(a) ==
    IF a.history.currentIndex > 0
    THEN [a EXCEPT !.history.currentIndex = @ - 1,
                   !.document = a.history.states[a.history.currentIndex],
                   !.last = "undo"]
    ELSE [a EXCEPT !.last = "undo"]

\* CircuitSimulatorApp.redo
redo(a) ==
    IF a.history.currentIndex < Len(a.history.states) - 1
    THEN [a EXCEPT !.history.currentIndex = @ + 1,
                   !.document = a.history.states[a.history.currentIndex + 2],
                   !.last = "redo"]
    ELSE [a EXCEPT !.last = "redo"]

\* the app after its constructor, whose init() saves the initial state
InitApp ==
    /\ circuit = EmptyCircuit
    /\ disposed = FALSE
    /\ analysisCache = EmptyMap
    /\ lastCircuitHash = "null"
    /\ calls = [k \in Callers |-> IdleCall]
    /\ microtasks = <<>>
    /\ clock = 0
    /\ cacheOrigin = EmptyMap
    /\ nEdits = 0
    /\ nCalls = 0
    /\ lastDone = NoDone
    /\ sys = NoSystem
    /\ sol = NoSystem
    /\ topo = NoTopology
    /\ selectedMethod = ""
    /\ voltageSource = NoSource
    /\ app = saveState(NewApp)

\* what the operations of the app leave alone
AppOnly ==
    UNCHANGED <<circuit, disposed, analysisCache, lastCircuitHash, calls, microtasks, clock,
                cacheOrigin, nEdits, nCalls, lastDone, sys, sol, topo, selectedMethod,
                voltageSource>>

\* addComponent and createWire: the document gains an element and the state
\* is saved
AddElement ==
    /\ \/ Len(app.history.states) < app.history.maxStates
       \/ app.history.currentIndex < Len(app.history.states) - 1
       \/ app.shifted < MaxShifts
    /\ app' = saveState([app EXCEPT !.document = @ + 1])
    /\ AppOnly

Undo ==
    /\ app' = undo(app)
    /\ AppOnly

Redo ==
    /\ app' = redo(app)
    /\ AppOnly

NextApp ==
    \/ AddElement
    \/ Undo
    \/ Redo

SpecApp == InitApp /\ [][NextApp]_vars

\* C30: the history holds at most maxStates states, the current index is
\* one of their positions, and after saveState no state follows the
\* current one, so a saveState after undo has dropped the undone states.
C30_HistoryBounded ==
    app.made =>
        /\ Len(app.history.states) <= app.history.maxStates
        /\ Len(app.history.states) >= 1
        /\ 0 <= app.history.currentIndex
        /\ app.history.currentIndex <= Len(app.history.states) - 1
        /\ app.last = "saveState" =>
              /\ app.history.currentIndex = Len(app.history.states) - 1
              /\ app.history.states[Len(app.history.states)] = app.document
        /\ app.document = app.history.states[app.history.currentIndex + 1]

\* a history that has pushed its oldest state out, just after a saveState
\* that dropped the states undone before it
C30_Witness ==
    /\ app.made
    /\ app.shifted > 0
    /\ app.last = "saveState"
    /\ app.cut
    /\ Len(app.history.states) > 1


-----------------------------------------------------------------------------
(* Callers that change the result objects analyzeCircuit handed to them *)

\* what a caller pushes onto the warnings list of its result
CallerNote == Msg("nota del usuario", <<>>)

\* The callers whose result object shares its nested objects with the cache
\* entry under h: the call that stored the entry returned that very object
\* (`this.analysisCache.set(circuitHash, results); ... return results`), and
\* a call answered from the cache returned the shallow copy
\* `{ ...this.analysisCache.get(circuitHash), fromCache: true }`, whose
\* warnings list and componentValues are the objects of the entry.
Sharing(h) ==
    { k \in Callers : /\ calls[k].pc = "done"
                      /\ calls[k].circuitHash = h
                      /\ calls[k].stored \/ calls[k].hit }

\* A change made in place to a nested object of the result caller holds
\* reaches everything that shares the object: the results of the callers
\* that share it, and the cache entry.
CanChange(caller, Change(_)) ==
    /\ calls[caller].pc = "done"
    /\ calls[caller].result.isValid
    /\ caller \in Sharing(calls[caller].circuitHash)
    /\ calls[caller].circuitHash \in DOMAIN analysisCache
    /\ Change(calls[caller].result) # calls[caller].result

ChangedCalls(caller, Change(_)) ==
    [k \in Callers |->
        IF k \in Sharing(calls[caller].circuitHash)
        THEN [calls[k] EXCEPT !.result = Change(@)]
        ELSE calls[k]]

ChangedCache(caller, Change(_)) ==
    [analysisCache EXCEPT ![calls[caller].circuitHash] = Change(@)]

\* result.warnings.push(note), once per list
pushWarning(r) ==
    IF CallerNote \in Range(r.warnings) THEN r
    ELSE [r EXCEPT !.warnings = Append(@, CallerNote)]

\* result.componentValues[id].voltage = 0, for the first component
editComponentValues(r) ==
    IF r.componentValues = <<>> THEN r
    ELSE [r EXCEPT !.componentValues[1].voltage = Zero]

PushWarning(caller) ==
    /\ CanChange(caller, pushWarning)
    /\ calls' = ChangedCalls(caller, pushWarning)
    /\ analysisCache' = ChangedCache(caller, pushWarning)
    /\ UNCHANGED <<circuit, disposed, lastCircuitHash, microtasks, clock, cacheOrigin, nEdits,
                   nCalls, lastDone, sys, sol, topo, selectedMethod, voltageSource, app>>

EditComponentValues(caller) ==
    /\ CanChange(caller, editComponentValues)
    /\ calls' = ChangedCalls(caller, editComponentValues)
    /\ analysisCache' = ChangedCache(caller, editComponentValues)
    /\ UNCHANGED <<circuit, disposed, lastCircuitHash, microtasks, clock, cacheOrigin, nEdits,
                   nCalls, lastDone, sys, sol, topo, selectedMethod, voltageSource, app>>

\* a caller that awaits each analysis before the next one is asked for
AwaitedStart(caller) ==
    /\ microtasks = <<>>
    /\ Start(caller, "circuit")

NextAlias ==
    \/ \E caller \in Callers : AwaitedStart(caller)
    \/ \E caller \in Callers : Resume(caller)
    \/ \E caller \in Callers : PushWarning(caller)
    \/ \E caller \in Callers : EditComponentValues(caller)
    \/ \E i \in EditableParts, v \in EditValues : SetValue(i, v)
    \/ Tick

SpecAlias == Init /\ [][NextAlias]_vars

\* C29: a result in the analysis cache is never changed by what callers do
\* with the result objects analyzeCircuit returned, so a later hit returns
\* the values originally computed.
C29_CacheUnchangedByCallers ==
    [][\A h \in DOMAIN analysisCache :
          h \in DOMAIN analysisCache' /\ analysisCache'[h] = analysisCache[h]]_vars

=============================================================================
